---- MODULE Spec2Model ----
(***************************************************************************)
(* A model of the JollyCV ColecoVision core: the memory and I/O bus        *)
(* (jcv_memio), the BIOS/ROM loaders, the save-state serialiser and the    *)
(* port-facing parts of the sound and video chips.                         *)
(*                                                                         *)
(* Large byte arrays (system RAM, SGM RAM, VRAM) are kept as a list of     *)
(* constant runs plus the cells that differ from their run, so that two    *)
(* arrays are equal exactly when every byte is equal.  ROM and BIOS images *)
(* are immutable frontend buffers: the machine holds a pointer (the image  *)
(* descriptor) and ImageByte gives the byte at an offset.                  *)
(***************************************************************************)
EXTENDS Integers, Sequences, FiniteSets, TLC

(***************************************************************************)
(* Bounds of the exploration.                                              *)
(***************************************************************************)
MaxMemOps == 3
MaxLoadOps == 3
MaxStateOps == 3
MaxTwinOps == 5
MaxTwinFree == 2
MaxIoOps == 3
MaxFrameOps == 3
MaxFrameLines == 507
MaxSprLines == 18
MaxSprOps == 2
MaxRegionLines == 320
MaxRegionOps == 1
MaxSnExecs == 500
MaxEnvExecs == 140
MaxNoiseExecs == 131080
MaxPeriodExecs == 65540
MaxAyExecs == 36
MaxAyOps == 2
MaxVdpLines == 192
MaxFrames == 2

(***************************************************************************)
(* Program constants.                                                      *)
(***************************************************************************)
SIZE_1K == 1024
SIZE_8K == 8192
SIZE_16K == 16384
SIZE_32K == 32768
SIZE_CVBIOS == SIZE_8K
SIZE_CVRAM == SIZE_1K
SIZE_VRAM == 16384
SIZE_STATE == 50392
SGM_FILL_LEN == 24576
PSG_WR_DELAY == 48
DIV_PSG == 16
Z80_CYC_LINE == 228
SIZE_PSGBUF == 4600
LFSRSHIFT == 14
NOISETAP == 3
CV_VDP_WIDTH == 256
CV_VDP_HEIGHT == 192
CV_VDP_SCANLINES == 262
CV_VDP_SCANLINES_PAL == 313

NULL == [id |-> "NULL"]

(***************************************************************************)
(* C integer arithmetic.                                                   *)
(***************************************************************************)
RECURSIVE BitAnd(_, _)
BitAnd(a, b) ==
    IF a = 0 \/ b = 0 THEN 0
    ELSE (a % 2) * (b % 2) + 2 * BitAnd(a \div 2, b \div 2)

RECURSIVE BitOr(_, _)
BitOr(a, b) ==
    IF a = 0 THEN b
    ELSE IF b = 0 THEN a
    ELSE (IF a % 2 = 1 \/ b % 2 = 1 THEN 1 ELSE 0) + 2 * BitOr(a \div 2, b \div 2)

RECURSIVE BitXor(_, _)
BitXor(a, b) ==
    IF a = 0 THEN b
    ELSE IF b = 0 THEN a
    ELSE ((a + b) % 2) + 2 * BitXor(a \div 2, b \div 2)

RECURSIVE Pow2(_)
Pow2(n) == IF n = 0 THEN 1 ELSE 2 * Pow2(n - 1)

Shl(a, n) == a * Pow2(n)
Shr(a, n) == a \div Pow2(n)
\* a value kept in an int16_t
S16(x) == ((x + 32768) % 65536) - 32768
\* the one element of a singleton set: binds a value once it is computed
Force(S) == CHOOSE x \in S : TRUE
\* F applied to the value of x
Eager(F(_), x) == Force({ F(b) : b \in {x} })

U8(x) == x % 256
U16(x) == x % 65536
\* every 32-bit quantity of the model stays within 0 .. 2^31 - 1
U32(x) == x
\* ~x on a uint8_t operand, truncated back to 8 bits
Not8(x) == 255 - U8(x)

(***************************************************************************)
(* Byte arrays: runs of a constant value plus the cells that differ.       *)
(* runs is a sequence of [upto, v]: run k covers the indices from the      *)
(* previous run's upto (0 for the first) up to but excluding its own.      *)
(***************************************************************************)
RECURSIVE RunValue(_, _, _)
RunValue(runs, k, i) ==
    IF k >= Len(runs) \/ i < runs[k].upto THEN runs[k].v
    ELSE RunValue(runs, k + 1, i)

ArrBase(arr, i) == RunValue(arr.runs, 1, i)

ArrAt(arr, i) == IF i \in DOMAIN arr.ov THEN arr.ov[i] ELSE ArrBase(arr, i)

ArrPut(arr, i, v) ==
    IF v = ArrBase(arr, i)
    THEN [arr EXCEPT !.ov = [x \in (DOMAIN arr.ov) \ {i} |-> arr.ov[x]]]
    ELSE [arr EXCEPT !.ov = [x \in (DOMAIN arr.ov) \cup {i} |->
                                 IF x = i THEN v ELSE arr.ov[x]]]

ArrConst(len, v) == [runs |-> <<[upto |-> len, v |-> v]>>, ov |-> <<>>]

ArrLen(arr) == arr.runs[Len(arr.runs)].upto

\* adjacent runs of the same value are one run
RECURSIVE MergeRuns(_)
MergeRuns(runs) ==
    IF Len(runs) <= 1 THEN runs
    ELSE IF runs[1].v = runs[2].v THEN MergeRuns(Tail(runs))
    ELSE <<runs[1]>> \o MergeRuns(Tail(runs))

\* memset(arr, v, n): the first n bytes become v, the rest is kept
ArrFill(arr, v, n) ==
    LET keep == SelectSeq(arr.runs, LAMBDA r : r.upto > n)
        runs == MergeRuns(<<[upto |-> n, v |-> v]>> \o keep)
        base == [runs |-> runs, ov |-> <<>>]
        idx  == {x \in DOMAIN arr.ov : x >= n /\ arr.ov[x] # ArrBase(base, x)}
               \cup {}
    IN  [runs |-> runs, ov |-> [x \in idx |-> arr.ov[x]]]

(***************************************************************************)
(* jcv_serial: typed little-endian push/pop into a byte buffer at a        *)
(* running position.  A buffer is its length, the bytes written one by one *)
(* (offset -> byte) and the blocks copied in whole (offset -> array);      *)
(* every other byte of it is zero.                                         *)
(***************************************************************************)
BlobZero(len) == [len |-> len, bytes |-> <<>>, blks |-> <<>>]

FnDrop(f, ks) == [x \in (DOMAIN f) \ ks |-> f[x]]

\* the byte at offset q; a read past the end of the buffer yields junk
ByteAt(st, q, junk) ==
    IF q >= st.len THEN junk
    ELSE IF q \in DOMAIN st.bytes THEN st.bytes[q]
    ELSE LET cover == {b \in DOMAIN st.blks : b <= q /\ q < b + st.blks[b].len}
         IN  IF cover = {} THEN 0
             ELSE LET b == CHOOSE b \in cover : TRUE
                  IN  ArrAt(st.blks[b].arr, q - b)

\* jcv_serial_begin: the position both push and pop start from
jcv_serial_begin == 0

\* the bytes a push appends, least significant first
jcv_serial_push8(v) == <<U8(v)>>
jcv_serial_push16(v) == <<U16(v) % 256, U16(v) \div 256>>
jcv_serial_push32(v) ==
    <<U32(v) % 256, (U32(v) \div 256) % 256, (U32(v) \div 65536) % 256,
      (U32(v) \div 16777216) % 256>>

\* the block a pushblk copies in
jcv_serial_pushblk(src, len) == [len |-> len, arr |-> src]

\* the value a pop at offset q reads
jcv_serial_pop8(st, q, junk) == ByteAt(st, q, junk)
jcv_serial_pop16(st, q, junk) == ByteAt(st, q, junk) + 256 * ByteAt(st, q + 1, junk)
jcv_serial_pop32(st, q, junk) ==
    ByteAt(st, q, junk) + 256 * ByteAt(st, q + 1, junk)
    + 65536 * ByteAt(st, q + 2, junk) + 16777216 * ByteAt(st, q + 3, junk)

jcv_serial_popblk(st, q, len, junk) ==
    LET whole == /\ q \in DOMAIN st.blks
                 /\ st.blks[q].len = len
                 /\ q + len <= st.len
        idx == {i \in 0 .. (len - 1) : ByteAt(st, q + i, junk) # 0}
    IN  IF whole THEN st.blks[q].arr
        ELSE [runs |-> <<[upto |-> len, v |-> 0]>>,
              ov |-> [i \in idx |-> ByteAt(st, q + i, junk)]]

(***************************************************************************)
(* A state_save / state_load routine is the list of its pushes / pops in   *)
(* source order, one entry per byte: the field f (element i of an array    *)
(* member, -1 otherwise), the width w of the primitive (1, 2, 4), the byte *)
(* b of it and, for a pop, whether the destination is a signed 16-bit      *)
(* field.  A block of n bytes is one entry of width n.                     *)
(***************************************************************************)
Fld(w, f) ==
    [j \in 1 .. w |-> [k |-> "int", w |-> w, f |-> f, i |-> -1, b |-> j - 1,
                       sgn |-> FALSE]]
Elems(w, f, n) ==
    [j \in 1 .. (n * w) |-> [k |-> "int", w |-> w, f |-> f, i |-> (j - 1) \div w,
                             b |-> (j - 1) % w, sgn |-> FALSE]]
SElems(w, f, n) ==
    [j \in 1 .. (n * w) |-> [k |-> "int", w |-> w, f |-> f, i |-> (j - 1) \div w,
                             b |-> (j - 1) % w, sgn |-> TRUE]]
Blk(f, n) == <<[k |-> "blk", w |-> n, f |-> f, i |-> -1, b |-> 0, sgn |-> FALSE]>>

FldGet(rec, d) == IF d.i = -1 THEN rec[d.f] ELSE rec[d.f][d.i]

\* the entries of a list that are blocks, and the bytes they add beyond one
Blks(fields) == {n \in DOMAIN fields : fields[n].k = "blk"}

RECURSIVE BlkExtra(_, _)
BlkExtra(fields, ns) ==
    IF ns = {} THEN 0
    ELSE LET n == CHOOSE x \in ns : TRUE
         IN  fields[n].w - 1 + BlkExtra(fields, ns \ {n})

\* the offset of entry n from the start of its list, the bytes of the whole
\* list, and the entry at an offset
Start(fields, n) == (n - 1) + BlkExtra(fields, {x \in Blks(fields) : x < n})
Width(fields) == Len(fields) + BlkExtra(fields, Blks(fields))
Entry(fields, off) ==
    IF Blks(fields) = {} THEN off + 1
    ELSE CHOOSE n \in DOMAIN fields : Start(fields, n) = off

PushedByte(d, rec) ==
    (IF d.w = 1 THEN jcv_serial_push8(FldGet(rec, d))
     ELSE IF d.w = 2 THEN jcv_serial_push16(FldGet(rec, d))
     ELSE jcv_serial_push32(FldGet(rec, d)))[d.b + 1]

\* the buffer st after the pushes of the list, made at position pos
PushAll(fields, rec, st, pos) ==
    LET span == pos .. (pos + Width(fields) - 1)
    IN  [st EXCEPT
           !.bytes = [q \in {pos + Start(fields, n) : n \in (DOMAIN fields) \ Blks(fields)}
                        |-> PushedByte(fields[Entry(fields, q - pos)], rec)]
                     @@ FnDrop(@, span),
           !.blks = [q \in {pos + Start(fields, n) : n \in Blks(fields)}
                        |-> jcv_serial_pushblk(rec[fields[Entry(fields, q - pos)].f],
                                               fields[Entry(fields, q - pos)].w)]
                     @@ FnDrop(@, span)]

\* the value entry n of the list pops, the list starting at position pos
Popped(fields, n, st, pos, junk) ==
    LET q == pos + Start(fields, n)
        d == fields[n]
    IN  IF d.k = "blk" THEN jcv_serial_popblk(st, q, d.w, junk)
        ELSE LET v == IF d.w = 1 THEN jcv_serial_pop8(st, q, junk)
                      ELSE IF d.w = 2 THEN jcv_serial_pop16(st, q, junk)
                      ELSE jcv_serial_pop32(st, q, junk)
             IN  IF d.sgn /\ v >= 32768 THEN v - 65536 ELSE v

\* the last entry of ns: a field popped twice keeps the later value
LastOf(ns) == CHOOSE n \in ns : \A x \in ns : x <= n

\* the record rec after the pops of the list; a field the list does not
\* name keeps its value
PopAll(fields, rec, st, pos, junk) ==
    [f \in DOMAIN rec |->
        LET ns == {n \in DOMAIN fields : fields[n].f = f /\ fields[n].b = 0}
        IN  IF ns = {} THEN rec[f]
            ELSE IF \E n \in ns : fields[n].i = -1
            THEN Popped(fields, LastOf(ns), st, pos, junk)
            ELSE [i \in DOMAIN rec[f] |->
                    LET ni == {n \in ns : fields[n].i = i}
                    IN  IF ni = {} THEN rec[f][i]
                        ELSE Popped(fields, LastOf(ni), st, pos, junk)]]

(***************************************************************************)
(* SN76489 (jcv_psg): context, init, register write, state save/load.      *)
(***************************************************************************)
PsgZero ==
    [clatch |-> 0, attenuator |-> [i \in 0 .. 3 |-> 0],
     frequency |-> [i \in 0 .. 2 |-> 0], noise |-> 0, lfsr |-> 0,
     counter |-> [i \in 0 .. 3 |-> 0], output |-> [i \in 0 .. 3 |-> 0],
     freqff |-> 0]

jcv_psg_init(psg) ==
    [psg EXCEPT !.clatch = 0,
                !.attenuator = [i \in 0 .. 3 |-> 15],
                !.counter = [i \in 0 .. 3 |-> 0],
                !.frequency = [i \in 0 .. 2 |-> 0],
                !.noise = 0,
                !.lfsr = Shl(1, LFSRSHIFT),
                !.freqff = 0]

jcv_psg_wr(psg, data) ==
    LET clatch == IF BitAnd(data, 128) # 0 THEN data ELSE psg.clatch
        chan == Shr(BitAnd(clatch, 96), 5)
        p == [psg EXCEPT !.clatch = clatch]
    IN  IF BitAnd(clatch, 16) # 0
        THEN [p EXCEPT !.attenuator[chan] = BitAnd(data, 15)]
        ELSE IF chan < 3
        THEN [p EXCEPT !.frequency[chan] =
                 IF BitAnd(data, 128) # 0
                 THEN BitOr(BitAnd(@, 1008), BitAnd(data, 15))
                 ELSE BitAnd(BitOr(BitAnd(@, 15), Shl(data, 4)), 1023)]
        ELSE [p EXCEPT !.noise = BitAnd(data, 7), !.lfsr = Shl(1, LFSRSHIFT)]

\* the SN76489's volume table
PsgVtable == <<8191, 6507, 5169, 4106, 3261, 2591, 2058, 1642,
               1298, 1031, 819, 651, 517, 411, 326, 0>>

parity(v) ==
    LET a == BitXor(v, Shr(v, 8))
        b == BitAnd(BitXor(a, Shr(a, 4)), 15)
    IN  BitAnd(Shr(27030, b), 1)

\* one clock of tone generator i
PsgTone(psg, i) ==
    LET cnt == IF psg.counter[i] > 0 THEN psg.counter[i] - 1 ELSE 0
        ff == BitXor(psg.freqff, Shl(1, i))
    IN  IF cnt = 0
        THEN [psg EXCEPT !.counter[i] = psg.frequency[i],
                         !.freqff = ff,
                         !.output[i] = IF BitAnd(ff, Shl(1, i)) # 0 THEN 0
                                       ELSE PsgVtable[psg.attenuator[i] + 1]]
        ELSE [psg EXCEPT !.counter[i] = cnt]

\* PsgNoise shifting the register on every reload of the noise counter
PsgNoise_every(psg) ==
    LET cnt == IF psg.counter[3] > 0 THEN psg.counter[3] - 1 ELSE 0
        out == BitAnd(psg.lfsr, 1) * PsgVtable[psg.attenuator[3] + 1]
        ff == BitXor(psg.freqff, 8)
        fed == IF BitAnd(psg.noise, 4) # 0
               THEN Shl(parity(BitAnd(psg.lfsr, NOISETAP)), LFSRSHIFT)
               ELSE Shl(BitAnd(psg.lfsr, 1), LFSRSHIFT)
    IN  IF cnt = 0
        THEN [psg EXCEPT !.output[3] = out,
                         !.counter[3] = IF BitAnd(psg.noise, 3) = 3
                                        THEN psg.frequency[2]
                                        ELSE Shl(16, BitAnd(psg.noise, 3)),
                         !.freqff = ff,
                         !.lfsr = U16(BitOr(Shr(psg.lfsr, 1), fed))]
        ELSE [psg EXCEPT !.output[3] = out, !.counter[3] = cnt]

\* one clock of the noise generator
PsgNoise(psg) ==
    LET cnt == IF psg.counter[3] > 0 THEN psg.counter[3] - 1 ELSE 0
        out == BitAnd(psg.lfsr, 1) * PsgVtable[psg.attenuator[3] + 1]
        ff == BitXor(psg.freqff, 8)
        fed == IF BitAnd(psg.noise, 4) # 0
               THEN Shl(parity(BitAnd(psg.lfsr, NOISETAP)), LFSRSHIFT)
               ELSE Shl(BitAnd(psg.lfsr, 1), LFSRSHIFT)
    IN  IF cnt = 0
        THEN [psg EXCEPT !.output[3] = out,
                         !.counter[3] = IF BitAnd(psg.noise, 3) = 3
                                        THEN psg.frequency[2]
                                        ELSE Shl(16, BitAnd(psg.noise, 3)),
                         !.freqff = ff,
                         !.lfsr = IF BitAnd(ff, 8) # 0
                                  THEN U16(BitOr(Shr(psg.lfsr, 1), fed))
                                  ELSE psg.lfsr]
        ELSE [psg EXCEPT !.output[3] = out, !.counter[3] = cnt]

\* the sample of a cycle: the four channel outputs added into an int16_t
PsgSample(psg) ==
    S16(psg.output[0] + psg.output[1] + psg.output[2] + psg.output[3])

\* one PSG cycle: the three tones, the noise, one sample into the buffer.
\* Of the buffer the machine keeps the cell written last, psgbuf[bufpos - 1].
jcv_psg_exec(m) ==
    Force({ [m EXCEPT !.psg = p, !.psgbufpos = @ + 1, !.psgbuf = PsgSample(p)] :
            p \in {Eager(PsgNoise,
                         Eager(LAMBDA q : PsgTone(q, 2),
                               Eager(LAMBDA q : PsgTone(q, 1),
                                     PsgTone(m.psg, 0))))} })

\* jcv_psg_state_load popping the LFSR before the noise register
jcv_psg_state_load_swapped ==
    Fld(1, "clatch") \o Elems(1, "attenuator", 4) \o Elems(2, "frequency", 3)
    \o Fld(2, "lfsr") \o Fld(1, "noise") \o Elems(2, "counter", 4)
    \o SElems(2, "output", 4) \o Fld(1, "freqff")

jcv_psg_state_load ==
    Fld(1, "clatch") \o Elems(1, "attenuator", 4) \o Elems(2, "frequency", 3)
    \o Fld(1, "noise") \o Fld(2, "lfsr") \o Elems(2, "counter", 4)
    \o SElems(2, "output", 4) \o Fld(1, "freqff")

jcv_psg_state_save ==
    Fld(1, "clatch") \o Elems(1, "attenuator", 4) \o Elems(2, "frequency", 3)
    \o Fld(1, "noise") \o Fld(2, "lfsr") \o Elems(2, "counter", 4)
    \o Elems(2, "output", 4) \o Fld(1, "freqff")

(***************************************************************************)
(* AY-3-8910 (jcv_sgmpsg): context, init, register select/read/write,      *)
(* state save/load.                                                        *)
(***************************************************************************)
SgmpsgDcmask ==
    [r \in 0 .. 15 |->
        <<255, 15, 255, 15, 255, 15, 31, 255,
          31, 31, 31, 255, 255, 15, 255, 255>>[r + 1]]

jcv_sgmpsg_init ==
    [reg |-> [i \in 0 .. 15 |-> 0], rlatch |-> 0,
     tperiod |-> [i \in 0 .. 2 |-> 0], tcounter |-> [i \in 0 .. 2 |-> 0],
     amplitude |-> [i \in 0 .. 2 |-> 0], sign |-> [i \in 0 .. 2 |-> 0],
     nperiod |-> 0, ncounter |-> 0, nshift |-> 1,
     eperiod |-> 0, ecounter |-> 0, eseg |-> 0, estep |-> 0, evol |-> 0,
     tdisable |-> [i \in 0 .. 2 |-> 0], ndisable |-> [i \in 0 .. 2 |-> 0],
     emode |-> [i \in 0 .. 2 |-> 0]]

\* jcv_sgmpsg_env_reset restarting every second segment from the bottom
jcv_sgmpsg_env_reset_bottom(psg) ==
    [psg EXCEPT !.estep = 0,
                !.evol = IF psg.eseg # 0
                         THEN 0
                         ELSE (IF BitAnd(psg.reg[13], 4) # 0 THEN 0 ELSE 15)]

jcv_sgmpsg_env_reset(psg) ==
    [psg EXCEPT !.estep = 0,
                !.evol = IF psg.eseg # 0
                         THEN (IF psg.reg[13] \in {8, 11, 13, 14} THEN 15 ELSE 0)
                         ELSE (IF BitAnd(psg.reg[13], 4) # 0 THEN 0 ELSE 15)]

jcv_sgmpsg_rd(psg) == psg.reg[psg.rlatch]

jcv_sgmpsg_set_reg(psg, r) == [psg EXCEPT !.rlatch = r]

jcv_sgmpsg_wr(psg, data) ==
    LET r == psg.rlatch
        p == [psg EXCEPT !.reg[r] = BitAnd(data, SgmpsgDcmask[r])]
        tone(c) == LET t == BitOr(p.reg[2 * c], Shl(p.reg[2 * c + 1], 8))
                   IN  [p EXCEPT !.tperiod[c] = IF t = 0 THEN 1 ELSE t]
    IN  IF r \in {0, 1} THEN tone(0)
        ELSE IF r \in {2, 3} THEN tone(1)
        ELSE IF r \in {4, 5} THEN tone(2)
        ELSE IF r = 6 THEN [p EXCEPT !.nperiod = IF p.reg[6] = 0 THEN 1 ELSE p.reg[6]]
        ELSE IF r = 7
        THEN [p EXCEPT !.tdisable = [c \in 0 .. 2 |-> BitAnd(Shr(p.reg[7], c), 1)],
                       !.ndisable = [c \in 0 .. 2 |-> BitAnd(Shr(p.reg[7], c + 3), 1)]]
        ELSE IF r \in {8, 9, 10}
        THEN [p EXCEPT !.amplitude[r - 8] = BitAnd(data, 15),
                       !.emode[r - 8] = BitAnd(Shr(data, 4), 1)]
        ELSE IF r \in {11, 12}
        THEN [p EXCEPT !.eperiod = BitOr(p.reg[11], Shl(p.reg[12], 8))]
        ELSE IF r = 13
        THEN jcv_sgmpsg_env_reset([p EXCEPT !.ecounter = 0, !.eseg = 0])
        ELSE p

\* SgmNoise feeding bit 0 back alone
SgmNoise_rotate(psg) ==
    LET cnt == U16(psg.ncounter + 1)
    IN  IF cnt >= Shl(psg.nperiod, 1)
        THEN [psg EXCEPT !.ncounter = 0,
                         !.nshift = BitOr(Shr(psg.nshift, 1),
                                          Shl(BitAnd(psg.nshift, 1), 16))]
        ELSE [psg EXCEPT !.ncounter = cnt]

\* one clock of the AY noise counter and its 17-bit shift register
SgmNoise(psg) ==
    LET cnt == U16(psg.ncounter + 1)
    IN  IF cnt >= Shl(psg.nperiod, 1)
        THEN [psg EXCEPT !.ncounter = 0,
                         !.nshift = BitOr(Shr(psg.nshift, 1),
                                          Shl(BitAnd(BitXor(psg.nshift,
                                                            Shr(psg.nshift, 3)), 1),
                                              16))]
        ELSE [psg EXCEPT !.ncounter = cnt]

\* one clock of tone counter i
SgmTone(psg, i) ==
    LET cnt == U16(psg.tcounter[i] + 1)
    IN  IF cnt >= psg.tperiod[i]
        THEN [psg EXCEPT !.tcounter[i] = 0, !.sign[i] = BitXor(@, 1)]
        ELSE [psg EXCEPT !.tcounter[i] = cnt]

\* SgmEnvelope counting down in both segments of shape 10
SgmEnvelope_down(psg) ==
    LET cnt == U16(psg.ecounter + 1)
        r == psg.reg[13]
        vol == IF psg.estep = 0 THEN psg.evol
               ELSE IF psg.eseg # 0
               THEN (IF r \in {12} THEN U8(psg.evol + 1)
                     ELSE IF r \in {8, 10, 14} THEN U8(psg.evol - 1)
                     ELSE psg.evol)
               ELSE (IF BitAnd(r, 4) # 0 THEN U8(psg.evol + 1)
                     ELSE U8(psg.evol - 1))
        step == U8(psg.estep + 1)
        p == [psg EXCEPT !.ecounter = 0, !.evol = vol, !.estep = step]
    IN  IF cnt >= Shl(psg.eperiod, 1)
        THEN (IF step >= 16
              THEN jcv_sgmpsg_env_reset(
                      [p EXCEPT !.eseg = IF BitAnd(r, 9) = 8 THEN BitXor(@, 1)
                                         ELSE 1])
              ELSE p)
        ELSE [psg EXCEPT !.ecounter = cnt]

\* one clock of the envelope counter; an envelope step when it overflows
SgmEnvelope(psg) ==
    LET cnt == U16(psg.ecounter + 1)
        r == psg.reg[13]
        vol == IF psg.estep = 0 THEN psg.evol
               ELSE IF psg.eseg # 0
               THEN (IF r \in {10, 12} THEN U8(psg.evol + 1)
                     ELSE IF r \in {8, 14} THEN U8(psg.evol - 1)
                     ELSE psg.evol)
               ELSE (IF BitAnd(r, 4) # 0 THEN U8(psg.evol + 1)
                     ELSE U8(psg.evol - 1))
        step == U8(psg.estep + 1)
        p == [psg EXCEPT !.ecounter = 0, !.evol = vol, !.estep = step]
    IN  IF cnt >= Shl(psg.eperiod, 1)
        THEN (IF step >= 16
              THEN jcv_sgmpsg_env_reset(
                      [p EXCEPT !.eseg = IF BitAnd(r, 9) = 8 THEN BitXor(@, 1)
                                         ELSE 1])
              ELSE p)
        ELSE [psg EXCEPT !.ecounter = cnt]

SgmVtable == <<0, 40, 60, 86, 124, 186, 264, 440,
               518, 840, 1196, 1526, 2016, 2602, 3300, 4096>>

\* the sample of a cycle: the level of every channel whose output is on,
\* added up in an int16_t
SgmSample(psg) ==
    LET out(i) == BitAnd(BitOr(psg.tdisable[i], psg.sign[i]),
                         BitOr(psg.ndisable[i], BitAnd(psg.nshift, 1)))
        level(i) == IF out(i) = 0 THEN 0
                    ELSE IF psg.emode[i] # 0 THEN SgmVtable[psg.evol + 1]
                    ELSE SgmVtable[psg.amplitude[i] + 1]
    IN  S16(S16(S16(level(0)) + level(1)) + level(2))

\* one AY cycle: tones, noise, envelope, one sample into the buffer.
\* Of the buffer the machine keeps the cell written last, psgbuf[bufpos - 1].
jcv_sgmpsg_exec(m) ==
    Force({ [m EXCEPT !.sgmpsg = p, !.sgmbufpos = @ + 1,
                      !.sgmpsgbuf = SgmSample(p)] :
            p \in {Eager(SgmEnvelope,
                         Eager(SgmNoise,
                               Eager(LAMBDA q : SgmTone(q, 2),
                                     Eager(LAMBDA q : SgmTone(q, 1),
                                           SgmTone(m.sgmpsg, 0)))))} })

jcv_sgmpsg_state_load ==
    Elems(1, "reg", 16) \o Fld(1, "rlatch") \o Elems(2, "tperiod", 3)
    \o Elems(2, "tcounter", 3) \o Elems(1, "amplitude", 3)
    \o Fld(1, "nperiod") \o Fld(2, "ncounter") \o Fld(4, "nshift")
    \o Fld(2, "eperiod") \o Fld(2, "ecounter") \o Fld(1, "eseg")
    \o Fld(1, "estep") \o Fld(1, "evol") \o Elems(1, "tdisable", 3)
    \o Elems(1, "ndisable", 3) \o Elems(1, "emode", 3) \o Elems(1, "sign", 3)

jcv_sgmpsg_state_save ==
    Elems(1, "reg", 16) \o Fld(1, "rlatch") \o Elems(2, "tperiod", 3)
    \o Elems(2, "tcounter", 3) \o Elems(1, "amplitude", 3)
    \o Fld(1, "nperiod") \o Fld(2, "ncounter") \o Fld(4, "nshift")
    \o Fld(2, "eperiod") \o Fld(2, "ecounter") \o Fld(1, "eseg")
    \o Fld(1, "estep") \o Fld(1, "evol") \o Elems(1, "tdisable", 3)
    \o Elems(1, "ndisable", 3) \o Elems(1, "emode", 3) \o Elems(1, "sign", 3)

(***************************************************************************)
(* Z80 host adapter (jcv_z80): register file, NMI pulse, delay, state      *)
(* save/load.  The interpreter itself is an external collaborator.         *)
(***************************************************************************)
z80_init ==
    [pc |-> 0, sp |-> 65535, ix |-> 0, iy |-> 0, mem_ptr |-> 0,
     a |-> 255, f |-> 255, b |-> 0, c |-> 0, d |-> 0, e |-> 0, h |-> 0, l |-> 0,
     a_ |-> 0, f_ |-> 0, b_ |-> 0, c_ |-> 0, d_ |-> 0, e_ |-> 0, h_ |-> 0, l_ |-> 0,
     i |-> 0, r |-> 0, iff_delay |-> 0, interrupt_mode |-> 0, irq_data |-> 0,
     iff1 |-> 0, iff2 |-> 0, halted |-> 0, irq_pending |-> 0, nmi_pending |-> 0]

z80_pulse_nmi(z) == [z EXCEPT !.nmi_pending = 1]

jcv_z80_state_load ==
    Fld(2, "pc") \o Fld(2, "sp") \o Fld(2, "ix") \o Fld(2, "iy")
    \o Fld(2, "mem_ptr")
    \o Fld(1, "a") \o Fld(1, "f") \o Fld(1, "b") \o Fld(1, "c")
    \o Fld(1, "d") \o Fld(1, "e") \o Fld(1, "h") \o Fld(1, "l")
    \o Fld(1, "a_") \o Fld(1, "f_") \o Fld(1, "b_") \o Fld(1, "c_")
    \o Fld(1, "d_") \o Fld(1, "e_") \o Fld(1, "h_") \o Fld(1, "l_")
    \o Fld(1, "i") \o Fld(1, "r") \o Fld(1, "iff_delay")
    \o Fld(1, "interrupt_mode") \o Fld(1, "irq_data") \o Fld(1, "iff1")
    \o Fld(1, "iff2") \o Fld(1, "halted") \o Fld(1, "irq_pending")
    \o Fld(1, "nmi_pending")

jcv_z80_state_save ==
    Fld(2, "pc") \o Fld(2, "sp") \o Fld(2, "ix") \o Fld(2, "iy")
    \o Fld(2, "mem_ptr")
    \o Fld(1, "a") \o Fld(1, "f") \o Fld(1, "b") \o Fld(1, "c")
    \o Fld(1, "d") \o Fld(1, "e") \o Fld(1, "h") \o Fld(1, "l")
    \o Fld(1, "a_") \o Fld(1, "f_") \o Fld(1, "b_") \o Fld(1, "c_")
    \o Fld(1, "d_") \o Fld(1, "e_") \o Fld(1, "h_") \o Fld(1, "l_")
    \o Fld(1, "i") \o Fld(1, "r") \o Fld(1, "iff_delay")
    \o Fld(1, "interrupt_mode") \o Fld(1, "irq_data") \o Fld(1, "iff1")
    \o Fld(1, "iff2") \o Fld(1, "halted") \o Fld(1, "irq_pending")
    \o Fld(1, "nmi_pending")

(***************************************************************************)
(* TMS9928A (jcv_vdp): context, init, port reads and writes, state         *)
(* save/load.  The port routines take and return the machine m because a   *)
(* register write can pulse the Z80's NMI line.                            *)
(***************************************************************************)
VdpDcmask == [r \in 0 .. 7 |-> <<3, 251, 15, 255, 7, 127, 7, 255>>[r + 1]]

jcv_vdp_init ==
    [line |-> 0, dot |-> 0, ctrl |-> [i \in 0 .. 7 |-> 0], stat |-> 0,
     vram |-> ArrConst(SIZE_VRAM, 0), addr |-> 0, dlatch |-> 0, wlatch |-> 0,
     tbl_col |-> 0, tbl_pname |-> 0, tbl_pgen |-> 0, tbl_sattr |-> 0,
     tbl_spgen |-> 0]

jcv_vdp_addr_inc(vdp) == [vdp EXCEPT !.addr = BitAnd(vdp.addr + 1, 16383)]
jcv_vdp_gint(vdp) == BitAnd(vdp.ctrl[1], 32)
jcv_vdp_int(vdp) == BitAnd(vdp.stat, 128)

\* nmis counts the pulses put on the interpreter's NMI line
jcv_z80_nmi(m) == [m EXCEPT !.z80ctx = z80_pulse_nmi(@), !.nmis = @ + 1]

jcv_vdp_rd_data(m) ==
    LET v == m.vdp
    IN  [ret |-> v.dlatch,
         m |-> [m EXCEPT !.vdp = jcv_vdp_addr_inc(
                   [v EXCEPT !.wlatch = 0, !.dlatch = ArrAt(v.vram, v.addr)])]]

\* jcv_vdp_rd_stat leaving the write latch as it was
jcv_vdp_rd_stat_latched(m) ==
    [ret |-> m.vdp.stat, m |-> [m EXCEPT !.vdp.stat = BitAnd(@, 31)]]

jcv_vdp_rd_stat(m) ==
    [ret |-> m.vdp.stat,
     m |-> [m EXCEPT !.vdp.wlatch = 0, !.vdp.stat = BitAnd(@, 31)]]

\* jcv_vdp_wr_reg without the test of the GINT bit before the write
jcv_vdp_wr_reg_any_gint(m, rnum, data) ==
    LET v == [m.vdp EXCEPT !.ctrl[rnum] = BitAnd(data, VdpDcmask[rnum])]
        w == IF rnum = 2 THEN [v EXCEPT !.tbl_pname = U16(Shl(v.ctrl[2], 10))]
             ELSE IF rnum = 3 THEN [v EXCEPT !.tbl_col = U16(Shl(v.ctrl[3], 6))]
             ELSE IF rnum = 4 THEN [v EXCEPT !.tbl_pgen = U16(Shl(v.ctrl[4], 11))]
             ELSE IF rnum = 5 THEN [v EXCEPT !.tbl_sattr = U16(Shl(v.ctrl[5], 7))]
             ELSE IF rnum = 6 THEN [v EXCEPT !.tbl_spgen = U16(Shl(v.ctrl[6], 11))]
             ELSE v
        n == [m EXCEPT !.vdp = w]
    IN  IF rnum = 1 /\ jcv_vdp_int(w) # 0 /\ jcv_vdp_gint(w) # 0
        THEN jcv_z80_nmi(n)
        ELSE n

\* jcv_vdp_wr_reg keeping the don't-care bits of the data
jcv_vdp_wr_reg_unmasked(m, rnum, data) ==
    LET old_gint == jcv_vdp_gint(m.vdp)
        v == [m.vdp EXCEPT !.ctrl[rnum] = data]
        w == IF rnum = 2 THEN [v EXCEPT !.tbl_pname = U16(Shl(v.ctrl[2], 10))]
             ELSE IF rnum = 3 THEN [v EXCEPT !.tbl_col = U16(Shl(v.ctrl[3], 6))]
             ELSE IF rnum = 4 THEN [v EXCEPT !.tbl_pgen = U16(Shl(v.ctrl[4], 11))]
             ELSE IF rnum = 5 THEN [v EXCEPT !.tbl_sattr = U16(Shl(v.ctrl[5], 7))]
             ELSE IF rnum = 6 THEN [v EXCEPT !.tbl_spgen = U16(Shl(v.ctrl[6], 11))]
             ELSE v
        n == [m EXCEPT !.vdp = w]
    IN  IF rnum = 1 /\ jcv_vdp_int(w) # 0 /\ jcv_vdp_gint(w) # 0 /\ old_gint = 0
        THEN jcv_z80_nmi(n)
        ELSE n

jcv_vdp_wr_reg(m, rnum, data) ==
    LET old_gint == jcv_vdp_gint(m.vdp)
        v == [m.vdp EXCEPT !.ctrl[rnum] = BitAnd(data, VdpDcmask[rnum])]
        w == IF rnum = 2 THEN [v EXCEPT !.tbl_pname = U16(Shl(v.ctrl[2], 10))]
             ELSE IF rnum = 3 THEN [v EXCEPT !.tbl_col = U16(Shl(v.ctrl[3], 6))]
             ELSE IF rnum = 4 THEN [v EXCEPT !.tbl_pgen = U16(Shl(v.ctrl[4], 11))]
             ELSE IF rnum = 5 THEN [v EXCEPT !.tbl_sattr = U16(Shl(v.ctrl[5], 7))]
             ELSE IF rnum = 6 THEN [v EXCEPT !.tbl_spgen = U16(Shl(v.ctrl[6], 11))]
             ELSE v
        n == [m EXCEPT !.vdp = w]
    IN  IF rnum = 1 /\ jcv_vdp_int(w) # 0 /\ jcv_vdp_gint(w) # 0 /\ old_gint = 0
        THEN jcv_z80_nmi(n)
        ELSE n

jcv_vdp_wr_ctrl(m, data) ==
    LET v == m.vdp
    IN  IF v.wlatch # 0
        THEN LET a == BitOr(Shl(BitAnd(data, 63), 8), v.dlatch)
                 w == [v EXCEPT !.wlatch = 0, !.addr = a]
                 sel == BitAnd(data, 192)
             IN  IF sel = 0
                 THEN [m EXCEPT !.vdp = jcv_vdp_addr_inc(
                          [w EXCEPT !.dlatch = ArrAt(w.vram, w.addr)])]
                 ELSE IF sel = 128
                 THEN jcv_vdp_wr_reg([m EXCEPT !.vdp = w], BitAnd(data, 7), w.dlatch)
                 ELSE [m EXCEPT !.vdp = w]
        ELSE [m EXCEPT !.vdp = [v EXCEPT !.wlatch = 1,
                                         !.addr = BitOr(BitAnd(v.addr, 16128), data),
                                         !.dlatch = data]]

jcv_vdp_wr_data(m, data) ==
    [m EXCEPT !.vdp = jcv_vdp_addr_inc(
        [m.vdp EXCEPT !.wlatch = 0, !.dlatch = data,
                      !.vram = ArrPut(@, m.vdp.addr, data)])]

jcv_vdp_set_region(m, region) ==
    [m EXCEPT !.numscanlines = IF region # 0 THEN CV_VDP_SCANLINES_PAL
                               ELSE CV_VDP_SCANLINES]

jcv_vdp_rendering(vdp) == BitAnd(vdp.ctrl[1], 64)

\* the background renderer writes pixels only; it leaves the dot counter 0
jcv_vdp_bgline(vdp) == [vdp EXCEPT !.dot = 0]

\* the VRAM indexes the background renderer reads on the line: the name of
\* each tile, then its pattern and colour bytes by the screen mode
BgReads(vdp) ==
    LET srow == Shr(vdp.line, 3)
        prow == BitAnd(vdp.line, 7)
        scrmode == BitOr(BitOr(Shr(BitAnd(vdp.ctrl[1], 16), 4),
                               BitAnd(vdp.ctrl[0], 2)),
                         Shr(BitAnd(vdp.ctrl[1], 8), 1))
        offset_pgen == U16(Shl(BitAnd(vdp.ctrl[4], 4), 11))
        text(i) ==
            LET a == vdp.tbl_pname + (srow * 40) + i
            IN  {a, vdp.tbl_pgen + Shl(ArrAt(vdp.vram, a), 3) + prow}
        graphics1(i) ==
            LET a == vdp.tbl_pname + Shl(srow, 5) + i
                n == ArrAt(vdp.vram, a)
            IN  {a, vdp.tbl_pgen + Shl(n, 3) + prow, vdp.tbl_col + Shr(n, 3)}
        graphics2(i) ==
            LET a == vdp.tbl_pname + Shl(srow, 5) + i
                n == U16(ArrAt(vdp.vram, a) + Shl(BitAnd(srow, 24), 5))
                offset_col == BitAnd(vdp.tbl_col, 8192)
                m1 == BitOr(Shl(BitAnd(vdp.ctrl[4], 3), 8), 255)
                m2 == BitOr(Shl(BitAnd(vdp.ctrl[3], 127), 3), 7)
            IN  {a, offset_pgen + Shl(BitAnd(n, m1), 3) + prow,
                 offset_col + Shl(BitAnd(n, m2), 3) + prow}
        multicolor(i) ==
            LET a == vdp.tbl_pname + Shl(srow, 5) + i
                n == ArrAt(vdp.vram, a)
            IN  {a, U16(offset_pgen + Shl(n, 3) + Shl(BitAnd(srow, 3), 1)
                        + (IF BitAnd(vdp.line, 4) # 0 THEN 1 ELSE 0))}
    IN  IF scrmode = 1 THEN UNION {text(i) : i \in 0 .. 39}
        ELSE IF scrmode = 0 THEN UNION {graphics1(i) : i \in 0 .. 31}
        ELSE IF scrmode = 2 THEN UNION {graphics2(i) : i \in 0 .. 31}
        ELSE IF scrmode = 4 THEN UNION {multicolor(i) : i \in 0 .. 31}
        ELSE {}

\* One pixel p of a sprite q = [x, c, sprsize, sprmag, base] on the line.
\* s = [sppat, stat, cbuf, used, reads] is the pattern byte in use, the
\* status register, the set of columns already marked in cbuf, the set of
\* the indexes x + p the two buffers were read or written at and the set of
\* the VRAM indexes read.  oob is what a read of cbuf at a negative index
\* finds (the columns left of the screen).
SprPixel(vdp, s, p, q, oob) ==
    LET xp == q.x + p
        second == q.sprsize = 16 /\ p = Shl(8, q.sprmag)
        pat == IF second THEN ArrAt(vdp.vram, BitOr(q.base, 16)) ELSE s.sppat
        hit == BitAnd(pat, Shr(128, BitAnd(Shr(p, q.sprmag), 7))) # 0
        marked == IF xp < 0 THEN oob ELSE xp \in s.cbuf
        t == [s EXCEPT !.sppat = pat,
                       !.reads = IF second THEN @ \cup {BitOr(q.base, 16)} ELSE @]
    IN  IF xp < 0 - q.sprsize \/ xp >= CV_VDP_WIDTH \/ q.c = 0 THEN s
        ELSE IF ~hit THEN t
        ELSE IF marked THEN [t EXCEPT !.stat = BitOr(@, 32), !.used = @ \cup {xp}]
        ELSE IF xp >= 0 THEN [t EXCEPT !.cbuf = @ \cup {xp}, !.used = @ \cup {xp}]
        ELSE [t EXCEPT !.used = @ \cup {xp}]

\* the pixels p .. n-1 of the sprite
RECURSIVE SprPixels(_, _, _, _, _, _)
SprPixels(vdp, s, p, n, q, oob) ==
    Force({IF p >= n THEN b ELSE SprPixels(vdp, SprPixel(vdp, b, p, q, oob),
                                            p + 1, n, q, oob) : b \in {s}})

\* SprEntry ending the walk at Y = 208 before it touches the status
SprEntry_early(vdp, w, oob) ==
    LET i == w.i
        at == vdp.tbl_sattr + (i * 4)
        y0 == ArrAt(vdp.vram, at)
        x0 == ArrAt(vdp.vram, at + 1)
        pname0 == ArrAt(vdp.vram, at + 2)
        c == ArrAt(vdp.vram, at + 3)
        sprmag == BitAnd(vdp.ctrl[1], 1)
        sprsize == IF BitAnd(vdp.ctrl[1], 2) # 0 THEN 16 ELSE 8
        stat1 == BitOr(BitAnd(w.stat, 224), BitAnd(i, 31))
        x == IF BitAnd(c, 128) # 0 THEN x0 - 32 ELSE x0
        y == (IF y0 > 224 THEN y0 - 256 ELSE y0) + 1
        h == Shl(sprsize, sprmag)
        pname == IF sprsize = 16 THEN BitAnd(pname0, 252) ELSE pname0
        srow == Shr(vdp.line - y, sprmag)
        base == vdp.tbl_spgen + Shl(pname, 3) + srow
        wr == [w EXCEPT !.reads = @ \cup {at, at + 1, at + 2, at + 3}]
    IN  IF y0 = 208 THEN [wr EXCEPT !.done = TRUE]
        ELSE IF y > vdp.line \/ y + h <= vdp.line
        THEN [wr EXCEPT !.stat = stat1, !.i = i + 1]
        ELSE IF w.numspr + 1 = 5
        THEN [wr EXCEPT !.stat = BitOr(stat1, 64), !.numspr = 5, !.done = TRUE]
        ELSE Force({[w EXCEPT !.stat = px.stat, !.cbuf = px.cbuf, !.used = px.used,
                              !.reads = px.reads,
                              !.numspr = @ + 1, !.i = i + 1] :
                    px \in {SprPixels(vdp,
                                      [sppat |-> ArrAt(vdp.vram, base),
                                       stat |-> stat1, cbuf |-> w.cbuf, used |-> w.used,
                                       reads |-> wr.reads \cup {base}],
                                      0, h,
                                      [x |-> x, c |-> c, sprsize |-> sprsize,
                                       sprmag |-> sprmag, base |-> base],
                                      oob)}})

\* SprEntry stopping at the sixth sprite of a line instead of the fifth
SprEntry_six(vdp, w, oob) ==
    LET i == w.i
        at == vdp.tbl_sattr + (i * 4)
        y0 == ArrAt(vdp.vram, at)
        x0 == ArrAt(vdp.vram, at + 1)
        pname0 == ArrAt(vdp.vram, at + 2)
        c == ArrAt(vdp.vram, at + 3)
        sprmag == BitAnd(vdp.ctrl[1], 1)
        sprsize == IF BitAnd(vdp.ctrl[1], 2) # 0 THEN 16 ELSE 8
        stat1 == BitOr(BitAnd(w.stat, 224), BitAnd(i, 31))
        x == IF BitAnd(c, 128) # 0 THEN x0 - 32 ELSE x0
        y == (IF y0 > 224 THEN y0 - 256 ELSE y0) + 1
        h == Shl(sprsize, sprmag)
        pname == IF sprsize = 16 THEN BitAnd(pname0, 252) ELSE pname0
        srow == Shr(vdp.line - y, sprmag)
        base == vdp.tbl_spgen + Shl(pname, 3) + srow
        wr == [w EXCEPT !.reads = @ \cup {at, at + 1, at + 2, at + 3}]
    IN  IF y0 = 208 THEN [wr EXCEPT !.stat = stat1, !.done = TRUE]
        ELSE IF y > vdp.line \/ y + h <= vdp.line
        THEN [wr EXCEPT !.stat = stat1, !.i = i + 1]
        ELSE IF w.numspr + 1 = 6
        THEN [wr EXCEPT !.stat = BitOr(stat1, 64), !.numspr = 6, !.done = TRUE]
        ELSE Force({[w EXCEPT !.stat = px.stat, !.cbuf = px.cbuf, !.used = px.used,
                              !.reads = px.reads,
                              !.numspr = @ + 1, !.i = i + 1] :
                    px \in {SprPixels(vdp,
                                      [sppat |-> ArrAt(vdp.vram, base),
                                       stat |-> stat1, cbuf |-> w.cbuf, used |-> w.used,
                                       reads |-> wr.reads \cup {base}],
                                      0, h,
                                      [x |-> x, c |-> c, sprsize |-> sprsize,
                                       sprmag |-> sprmag, base |-> base],
                                      oob)}})

\* Entry i of the sprite attribute table.  w = [i, numspr, stat, cbuf,
\* done]: the next entry, the sprites found on the line, the status
\* register, the marked columns and whether the walk has ended.
SprEntry(vdp, w, oob) ==
    LET i == w.i
        at == vdp.tbl_sattr + (i * 4)
        y0 == ArrAt(vdp.vram, at)
        x0 == ArrAt(vdp.vram, at + 1)
        pname0 == ArrAt(vdp.vram, at + 2)
        c == ArrAt(vdp.vram, at + 3)
        sprmag == BitAnd(vdp.ctrl[1], 1)
        sprsize == IF BitAnd(vdp.ctrl[1], 2) # 0 THEN 16 ELSE 8
        stat1 == BitOr(BitAnd(w.stat, 224), BitAnd(i, 31))
        x == IF BitAnd(c, 128) # 0 THEN x0 - 32 ELSE x0
        y == (IF y0 > 224 THEN y0 - 256 ELSE y0) + 1
        h == Shl(sprsize, sprmag)
        pname == IF sprsize = 16 THEN BitAnd(pname0, 252) ELSE pname0
        srow == Shr(vdp.line - y, sprmag)
        base == vdp.tbl_spgen + Shl(pname, 3) + srow
        wr == [w EXCEPT !.reads = @ \cup {at, at + 1, at + 2, at + 3}]
    IN  IF y0 = 208 THEN [wr EXCEPT !.stat = stat1, !.done = TRUE]
        ELSE IF y > vdp.line \/ y + h <= vdp.line
        THEN [wr EXCEPT !.stat = stat1, !.i = i + 1]
        ELSE IF w.numspr + 1 = 5
        THEN [wr EXCEPT !.stat = BitOr(stat1, 64), !.numspr = 5, !.done = TRUE]
        ELSE Force({[w EXCEPT !.stat = px.stat, !.cbuf = px.cbuf, !.used = px.used,
                              !.reads = px.reads,
                              !.numspr = @ + 1, !.i = i + 1] :
                    px \in {SprPixels(vdp,
                                      [sppat |-> ArrAt(vdp.vram, base),
                                       stat |-> stat1, cbuf |-> w.cbuf, used |-> w.used,
                                       reads |-> wr.reads \cup {base}],
                                      0, h,
                                      [x |-> x, c |-> c, sprsize |-> sprsize,
                                       sprmag |-> sprmag, base |-> base],
                                      oob)}})

\* the walk over the 32 entries, from w on
RECURSIVE SprWalk(_, _, _)
SprWalk(vdp, w, oob) ==
    Force({IF b.done \/ b.i >= 32 THEN b ELSE SprWalk(vdp, SprEntry(vdp, b, oob), oob) :
           b \in {w}})

\* the sprite renderer: what it leaves in the status register (the pixels
\* go to the frame buffer)
jcv_vdp_sprline(vdp, oob) ==
    [vdp EXCEPT !.stat = SprWalk(vdp, [i |-> 0, numspr |-> 0, stat |-> vdp.stat,
                                       cbuf |-> {}, used |-> {}, reads |-> {}, done |-> FALSE], oob).stat]

\* jcv_vdp_exec raising no NMI when the frame enters VBLANK
jcv_vdp_exec_no_nmi(m, oob) ==
    LET v == m.vdp
        drawn == IF jcv_vdp_rendering(v) # 0 /\ v.line < CV_VDP_HEIGHT
                 THEN (IF BitAnd(v.ctrl[1], 16) = 0
                       THEN jcv_vdp_sprline(jcv_vdp_bgline(v), oob)
                       ELSE jcv_vdp_bgline(v))
                 ELSE v
        line == U16(drawn.line + 1)
        vblank == line = CV_VDP_HEIGHT
        w == [drawn EXCEPT !.line = IF line = m.numscanlines THEN 0 ELSE line,
                           !.stat = IF vblank THEN BitOr(@, 128) ELSE @]
    IN  [m EXCEPT !.vdp = w]

\* jcv_vdp_exec raising the NMI whenever GINT is set at VBLANK, without the
\* test of the INT bit found
jcv_vdp_exec_unguarded(m, oob) ==
    LET v == m.vdp
        drawn == IF jcv_vdp_rendering(v) # 0 /\ v.line < CV_VDP_HEIGHT
                 THEN (IF BitAnd(v.ctrl[1], 16) = 0
                       THEN jcv_vdp_sprline(jcv_vdp_bgline(v), oob)
                       ELSE jcv_vdp_bgline(v))
                 ELSE v
        line == U16(drawn.line + 1)
        vblank == line = CV_VDP_HEIGHT
        w == [drawn EXCEPT !.line = IF line = m.numscanlines THEN 0 ELSE line,
                           !.stat = IF vblank THEN BitOr(@, 128) ELSE @]
        n == [m EXCEPT !.vdp = w]
    IN  IF vblank /\ jcv_vdp_gint(drawn) # 0
        THEN jcv_z80_nmi(n)
        ELSE n

\* one scanline: render, advance the line, enter VBLANK at line 192, wrap
\* at the end of the frame
jcv_vdp_exec(m, oob) ==
    LET v == m.vdp
        drawn == IF jcv_vdp_rendering(v) # 0 /\ v.line < CV_VDP_HEIGHT
                 THEN (IF BitAnd(v.ctrl[1], 16) = 0
                       THEN jcv_vdp_sprline(jcv_vdp_bgline(v), oob)
                       ELSE jcv_vdp_bgline(v))
                 ELSE v
        line == U16(drawn.line + 1)
        vblank == line = CV_VDP_HEIGHT
        old_int == jcv_vdp_int(drawn)
        w == [drawn EXCEPT !.line = IF line = m.numscanlines THEN 0 ELSE line,
                           !.stat = IF vblank THEN BitOr(@, 128) ELSE @]
        n == [m EXCEPT !.vdp = w]
    IN  IF vblank /\ jcv_vdp_gint(drawn) # 0 /\ old_int = 0
        THEN jcv_z80_nmi(n)
        ELSE n

jcv_vdp_state_load ==
    Fld(2, "line") \o Fld(2, "dot") \o Blk("vram", SIZE_VRAM) \o Fld(2, "addr")
    \o Fld(1, "dlatch") \o Fld(1, "wlatch") \o Elems(1, "ctrl", 8)
    \o Fld(1, "stat") \o Fld(2, "tbl_col") \o Fld(2, "tbl_pgen")
    \o Fld(2, "tbl_pname") \o Fld(2, "tbl_sattr") \o Fld(2, "tbl_spgen")

jcv_vdp_state_save ==
    Fld(2, "line") \o Fld(2, "dot") \o Blk("vram", SIZE_VRAM) \o Fld(2, "addr")
    \o Fld(1, "dlatch") \o Fld(1, "wlatch") \o Elems(1, "ctrl", 8)
    \o Fld(1, "stat") \o Fld(2, "tbl_col") \o Fld(2, "tbl_pgen")
    \o Fld(2, "tbl_pname") \o Fld(2, "tbl_sattr") \o Fld(2, "tbl_spgen")

(***************************************************************************)
(* Frontend buffers.  A ROM image is [id, size, head, top]: head are the   *)
(* two bytes at offset 0, top the two bytes at offset size - 16K (images   *)
(* larger than 16K); every other byte depends on its 8K page and offset.   *)
(* A BIOS buffer is [id, size].  Reading a buffer past its end yields      *)
(* junk.                                                                   *)
(***************************************************************************)
ImageByte(img, off, junk) ==
    IF off < 0 \/ off >= img.size THEN junk
    ELSE IF off < 2 THEN img.head[off + 1]
    ELSE IF img.size > SIZE_16K /\ off \in {img.size - SIZE_16K, img.size - SIZE_16K + 1}
    THEN img.top[off - (img.size - SIZE_16K) + 1]
    ELSE (off \div SIZE_8K) * 8 + (off % 7) + 1

BiosByte(buf, off, junk) ==
    IF off >= buf.size THEN junk
    ELSE IF buf.id = "zero" THEN 0
    ELSE (off * 3 + 1) % 256

(***************************************************************************)
(* jcv_memio: I/O port dispatch.  v is the value the input callback        *)
(* returns when the read polls a controller.                               *)
(***************************************************************************)
\* jcv_z80_delay replacing the pending delay instead of adding to it
jcv_z80_delay_set(m, delay) == [m EXCEPT !.delaycycs = U32(delay)]

jcv_z80_delay(m, delay) == [m EXCEPT !.delaycycs = U32(@ + delay)]

\* jcv_io_rd with the two controller segments exchanged
jcv_io_rd_swapped(m, port, v) ==
    LET band == BitAnd(port, 224)
    IN  IF band = 160
        THEN (IF BitAnd(port, 1) # 0 THEN jcv_vdp_rd_stat(m) ELSE jcv_vdp_rd_data(m))
        ELSE IF band = 224
        THEN LET p == Shr(BitAnd(port, 2), 1)
                 n == [m EXCEPT !.cvsys.ctrl[p] = U16(v)]
             IN  [ret |-> IF n.cvsys.cseg # 0
                          THEN Not8(BitAnd(n.cvsys.ctrl[p], 255))
                          ELSE Not8(Shr(n.cvsys.ctrl[p], 8)),
                  m |-> n]
        ELSE IF port = 82 THEN [ret |-> jcv_sgmpsg_rd(m.sgmpsg), m |-> m]
        ELSE [ret |-> 255, m |-> m]

jcv_io_rd(m, port, v) ==
    LET band == BitAnd(port, 224)
    IN  IF band = 160
        THEN (IF BitAnd(port, 1) # 0 THEN jcv_vdp_rd_stat(m) ELSE jcv_vdp_rd_data(m))
        ELSE IF band = 224
        THEN LET p == Shr(BitAnd(port, 2), 1)
                 n == [m EXCEPT !.cvsys.ctrl[p] = U16(v)]
             IN  [ret |-> IF n.cvsys.cseg # 0
                          THEN Not8(Shr(n.cvsys.ctrl[p], 8))
                          ELSE Not8(BitAnd(n.cvsys.ctrl[p], 255)),
                  m |-> n]
        ELSE IF port = 82 THEN [ret |-> jcv_sgmpsg_rd(m.sgmpsg), m |-> m]
        ELSE [ret |-> 255, m |-> m]

\* jcv_io_wr taking the upper SGM enable from the data byte
jcv_io_wr_upper_data(m, port, data) ==
    LET band == BitAnd(port, 224)
    IN  IF band = 128 THEN [m EXCEPT !.cvsys.cseg = 0]
        ELSE IF band = 160
        THEN (IF BitAnd(port, 1) # 0 THEN jcv_vdp_wr_ctrl(m, data)
              ELSE jcv_vdp_wr_data(m, data))
        ELSE IF band = 192 THEN [m EXCEPT !.cvsys.cseg = 1]
        ELSE IF band = 224
        THEN [jcv_z80_delay(m, PSG_WR_DELAY) EXCEPT !.psg = jcv_psg_wr(@, data)]
        ELSE IF port = 80
        THEN [m EXCEPT !.sgmpsg = jcv_sgmpsg_set_reg(@, BitAnd(data, 15))]
        ELSE IF port = 81 THEN [m EXCEPT !.sgmpsg = jcv_sgmpsg_wr(@, data)]
        ELSE IF port = 83 THEN [m EXCEPT !.sgm_upper = BitAnd(data, 1)]
        ELSE IF port = 127 THEN [m EXCEPT !.sgm_lower = BitAnd(Not8(data), 2)]
        ELSE m

\* jcv_io_wr taking the lower SGM enable from bit 1 without inverting it
jcv_io_wr_lower_direct(m, port, data) ==
    LET band == BitAnd(port, 224)
    IN  IF band = 128 THEN [m EXCEPT !.cvsys.cseg = 0]
        ELSE IF band = 160
        THEN (IF BitAnd(port, 1) # 0 THEN jcv_vdp_wr_ctrl(m, data)
              ELSE jcv_vdp_wr_data(m, data))
        ELSE IF band = 192 THEN [m EXCEPT !.cvsys.cseg = 1]
        ELSE IF band = 224
        THEN [jcv_z80_delay(m, PSG_WR_DELAY) EXCEPT !.psg = jcv_psg_wr(@, data)]
        ELSE IF port = 80
        THEN [m EXCEPT !.sgmpsg = jcv_sgmpsg_set_reg(@, BitAnd(data, 15))]
        ELSE IF port = 81 THEN [m EXCEPT !.sgmpsg = jcv_sgmpsg_wr(@, data)]
        ELSE IF port = 83 THEN [m EXCEPT !.sgm_upper = 1]
        ELSE IF port = 127 THEN [m EXCEPT !.sgm_lower = BitAnd(data, 2)]
        ELSE m

jcv_io_wr(m, port, data) ==
    LET band == BitAnd(port, 224)
    IN  IF band = 128 THEN [m EXCEPT !.cvsys.cseg = 0]
        ELSE IF band = 160
        THEN (IF BitAnd(port, 1) # 0 THEN jcv_vdp_wr_ctrl(m, data)
              ELSE jcv_vdp_wr_data(m, data))
        ELSE IF band = 192 THEN [m EXCEPT !.cvsys.cseg = 1]
        ELSE IF band = 224
        THEN [jcv_z80_delay(m, PSG_WR_DELAY) EXCEPT !.psg = jcv_psg_wr(@, data)]
        ELSE IF port = 80
        THEN [m EXCEPT !.sgmpsg = jcv_sgmpsg_set_reg(@, BitAnd(data, 15))]
        ELSE IF port = 81 THEN [m EXCEPT !.sgmpsg = jcv_sgmpsg_wr(@, data)]
        ELSE IF port = 83 THEN [m EXCEPT !.sgm_upper = 1]
        ELSE IF port = 127 THEN [m EXCEPT !.sgm_lower = BitAnd(Not8(data), 2)]
        ELSE m

(***************************************************************************)
(* jcv_memio: memory map.                                                  *)
(***************************************************************************)
\* jcv_mem_rd testing the BIOS range before the lower SGM enable
jcv_mem_rd_bios_first(m, addr, junk) ==
    IF addr < 8192
    THEN [ret |-> BiosByte(m.cvbios, addr, junk), m |-> m]
    ELSE IF m.sgm_upper # 0 /\ addr < 32768
    THEN [ret |-> ArrAt(m.cvsys.sgmram, addr), m |-> m]
    ELSE IF addr < 24576
    THEN [ret |-> 255, m |-> m]
    ELSE IF addr < 32768
    THEN [ret |-> ArrAt(m.cvsys.ram, BitAnd(addr, 1023)), m |-> m]
    ELSE LET sel == U32(Shl(BitAnd(addr, Shr(m.rompages, 1) - 1), 14))
             n == IF m.megacart # 0 /\ addr >= 65472
                  THEN [m EXCEPT !.rompage[2] = sel,
                                 !.rompage[3] = U32(sel + SIZE_8K)]
                  ELSE m
             page == Shr(addr, 13) - 4
         IN  IF addr >= n.romsize + SIZE_32K
             THEN [ret |-> 255, m |-> n]
             ELSE [ret |-> ImageByte(n.romdata,
                                     n.rompage[page] + BitAnd(addr, 8191), junk),
                   m |-> n]

\* jcv_mem_rd fetching the byte through the old mapping and selecting the
\* Mega Cart bank afterwards
jcv_mem_rd_late_select(m, addr, junk) ==
    IF m.sgm_lower # 0 /\ addr < 8192
    THEN [ret |-> ArrAt(m.cvsys.sgmram, addr), m |-> m]
    ELSE IF addr < 8192
    THEN [ret |-> BiosByte(m.cvbios, addr, junk), m |-> m]
    ELSE IF m.sgm_upper # 0 /\ addr < 32768
    THEN [ret |-> ArrAt(m.cvsys.sgmram, addr), m |-> m]
    ELSE IF addr < 24576
    THEN [ret |-> 255, m |-> m]
    ELSE IF addr < 32768
    THEN [ret |-> ArrAt(m.cvsys.ram, BitAnd(addr, 1023)), m |-> m]
    ELSE LET sel == U32(Shl(BitAnd(addr, Shr(m.rompages, 1) - 1), 14))
             n == IF m.megacart # 0 /\ addr >= 65472
                  THEN [m EXCEPT !.rompage[2] = sel,
                                 !.rompage[3] = U32(sel + SIZE_8K)]
                  ELSE m
             page == Shr(addr, 13) - 4
         IN  IF addr >= n.romsize + SIZE_32K
             THEN [ret |-> 255, m |-> n]
             ELSE [ret |-> ImageByte(m.romdata,
                                     m.rompage[page] + BitAnd(addr, 8191), junk),
                   m |-> n]

\* jcv_mem_rd switching the pages of 0x8000-0xBFFF on a bank select
jcv_mem_rd_low_window(m, addr, junk) ==
    IF m.sgm_lower # 0 /\ addr < 8192
    THEN [ret |-> ArrAt(m.cvsys.sgmram, addr), m |-> m]
    ELSE IF addr < 8192
    THEN [ret |-> BiosByte(m.cvbios, addr, junk), m |-> m]
    ELSE IF m.sgm_upper # 0 /\ addr < 32768
    THEN [ret |-> ArrAt(m.cvsys.sgmram, addr), m |-> m]
    ELSE IF addr < 24576
    THEN [ret |-> 255, m |-> m]
    ELSE IF addr < 32768
    THEN [ret |-> ArrAt(m.cvsys.ram, BitAnd(addr, 1023)), m |-> m]
    ELSE LET sel == U32(Shl(BitAnd(addr, Shr(m.rompages, 1) - 1), 14))
             n == IF m.megacart # 0 /\ addr >= 65472
                  THEN [m EXCEPT !.rompage[0] = sel,
                                 !.rompage[1] = U32(sel + SIZE_8K)]
                  ELSE m
             page == Shr(addr, 13) - 4
         IN  IF addr >= n.romsize + SIZE_32K
             THEN [ret |-> 255, m |-> n]
             ELSE [ret |-> ImageByte(n.romdata,
                                     n.rompage[page] + BitAnd(addr, 8191), junk),
                   m |-> n]

jcv_mem_rd(m, addr, junk) ==
    IF m.sgm_lower # 0 /\ addr < 8192
    THEN [ret |-> ArrAt(m.cvsys.sgmram, addr), m |-> m]
    ELSE IF addr < 8192
    THEN [ret |-> BiosByte(m.cvbios, addr, junk), m |-> m]
    ELSE IF m.sgm_upper # 0 /\ addr < 32768
    THEN [ret |-> ArrAt(m.cvsys.sgmram, addr), m |-> m]
    ELSE IF addr < 24576
    THEN [ret |-> 255, m |-> m]
    ELSE IF addr < 32768
    THEN [ret |-> ArrAt(m.cvsys.ram, BitAnd(addr, 1023)), m |-> m]
    ELSE LET sel == U32(Shl(BitAnd(addr, Shr(m.rompages, 1) - 1), 14))
             n == IF m.megacart # 0 /\ addr >= 65472
                  THEN [m EXCEPT !.rompage[2] = sel,
                                 !.rompage[3] = U32(sel + SIZE_8K)]
                  ELSE m
             page == Shr(addr, 13) - 4
         IN  IF addr >= n.romsize + SIZE_32K
             THEN [ret |-> 255, m |-> n]
             ELSE [ret |-> ImageByte(n.romdata,
                                     n.rompage[page] + BitAnd(addr, 8191), junk),
                   m |-> n]

\* jcv_mem_wr decoding system RAM as 8K instead of a mirrored 1K
jcv_mem_wr_8k(m, addr, data) ==
    IF m.sgm_lower # 0 /\ addr < 8192
    THEN [m EXCEPT !.cvsys.sgmram = ArrPut(@, addr, data)]
    ELSE IF m.sgm_upper # 0 /\ addr > 8191 /\ addr < 32768
    THEN [m EXCEPT !.cvsys.sgmram = ArrPut(@, addr, data)]
    ELSE IF addr > 24575 /\ addr < 32768
    THEN [m EXCEPT !.cvsys.ram = ArrPut(@, BitAnd(addr, 8191), data)]
    ELSE m

\* jcv_mem_wr letting a write to 0xFFC0-0xFFFF select the Mega Cart bank
jcv_mem_wr_bank(m, addr, data) ==
    IF m.sgm_lower # 0 /\ addr < 8192
    THEN [m EXCEPT !.cvsys.sgmram = ArrPut(@, addr, data)]
    ELSE IF m.sgm_upper # 0 /\ addr > 8191 /\ addr < 32768
    THEN [m EXCEPT !.cvsys.sgmram = ArrPut(@, addr, data)]
    ELSE IF addr > 24575 /\ addr < 32768
    THEN [m EXCEPT !.cvsys.ram = ArrPut(@, BitAnd(addr, 1023), data)]
    ELSE IF m.megacart # 0 /\ addr >= 65472
    THEN LET sel == U32(Shl(BitAnd(addr, Shr(m.rompages, 1) - 1), 14))
         IN  [m EXCEPT !.rompage[2] = sel, !.rompage[3] = U32(sel + SIZE_8K)]
    ELSE m

jcv_mem_wr(m, addr, data) ==
    IF m.sgm_lower # 0 /\ addr < 8192
    THEN [m EXCEPT !.cvsys.sgmram = ArrPut(@, addr, data)]
    ELSE IF m.sgm_upper # 0 /\ addr > 8191 /\ addr < 32768
    THEN [m EXCEPT !.cvsys.sgmram = ArrPut(@, addr, data)]
    ELSE IF addr > 24575 /\ addr < 32768
    THEN [m EXCEPT !.cvsys.ram = ArrPut(@, BitAnd(addr, 1023), data)]
    ELSE m

(***************************************************************************)
(* jcv_memio: BIOS and ROM loaders.  Each returns the C return value ret   *)
(* and the machine after the call.                                         *)
(***************************************************************************)
\* file is NULL when fopen fails; file.ok is FALSE when fread fails
jcv_bios_load_file(m, file) ==
    IF file = NULL THEN [ret |-> 0, m |-> m]
    ELSE IF file.size # SIZE_CVBIOS THEN [ret |-> 0, m |-> m]
    ELSE IF ~file.ok
    THEN [ret |-> 0, m |-> [m EXCEPT !.cvbios = [id |-> "zero", size |-> SIZE_CVBIOS]]]
    ELSE [ret |-> 1,
          m |-> [m EXCEPT !.cvbios = [id |-> file.id, size |-> SIZE_CVBIOS],
                          !.bios_internal = 1]]

jcv_bios_load(m, data, size) ==
    [ret |-> 1, m |-> [m EXCEPT !.cvbios = data]]

\* the page count without the round-up for a last page shorter than 8K
PageCountFloor(size) == U8(size \div SIZE_8K)

PageCount(size) == U8((size \div SIZE_8K) + (IF size % SIZE_8K # 0 THEN 1 ELSE 0))

RECURSIVE SetPages(_, _, _)
SetPages(rompage, i, n) ==
    IF i >= n THEN rompage
    ELSE SetPages([rompage EXCEPT ![i] = i * SIZE_8K], i + 1, n)

jcv_rom_load(m, data, size, junk) ==
    LET n == [m EXCEPT !.romdata = data, !.romsize = size]
        mword == BitOr(ImageByte(data, size - SIZE_16K, junk),
                       Shl(ImageByte(data, size - SIZE_16K + 1, junk), 8))
        hword == BitOr(ImageByte(data, 1, junk), Shl(ImageByte(data, 0, junk), 8))
    IN  IF size > 32768
        THEN IF mword # 43605 /\ mword # 21930
             THEN [ret |-> 0, m |-> n]
             ELSE [ret |-> 1,
                   m |-> [n EXCEPT !.megacart = 1,
                                   !.rompages = PageCount(size),
                                   !.rompage = [@ EXCEPT ![2] = 0,
                                                         ![3] = SIZE_8K,
                                                         ![0] = U32(size - SIZE_16K),
                                                         ![1] = U32(size - SIZE_8K)]]]
        ELSE IF hword # 43605 /\ hword # 21930
        THEN [ret |-> 0, m |-> n]
        ELSE [ret |-> 1,
              m |-> [n EXCEPT !.rompages = PageCount(size),
                              !.rompage = SetPages(@, 0, PageCount(size))]]

\* rnd is the byte rand() fills system RAM with
jcv_memio_init(m, rnd) ==
    [m EXCEPT !.cvsys = [ram |-> ArrConst(SIZE_CVRAM, rnd),
                         sgmram |-> ArrFill(m.cvsys.sgmram, 255, SGM_FILL_LEN),
                         cseg |-> 0,
                         ctrl |-> [i \in 0 .. 1 |-> 0]],
              !.sgm_upper = 0,
              !.sgm_lower = 0]

(***************************************************************************)
(* jcv_memio: save states.  state is the static buffer of SIZE_STATE       *)
(* bytes, pos the serialiser's position.                                   *)
(***************************************************************************)
jcv_state_size == SIZE_STATE

CvsysLoad ==
    Blk("ram", SIZE_CVRAM) \o Blk("sgmram", SIZE_32K) \o Fld(1, "cseg")
    \o Elems(2, "ctrl", 2)

RompageLoad == Elems(4, "rompage", 4)

jcv_state_load_raw(m, sstate, junk) ==
    LET p0 == jcv_serial_begin
        p1 == p0 + Width(CvsysLoad)
        p2 == p1 + Width(RompageLoad)
        p3 == p2 + Width(jcv_psg_state_load)
        p4 == p3 + Width(jcv_sgmpsg_state_load)
        p5 == p4 + Width(jcv_vdp_state_load)
        p6 == p5 + Width(jcv_z80_state_load)
    IN  [PopAll(RompageLoad, m, sstate, p1, junk) EXCEPT
            !.cvsys = PopAll(CvsysLoad, m.cvsys, sstate, p0, junk),
            !.psg = PopAll(jcv_psg_state_load, m.psg, sstate, p2, junk),
            !.sgmpsg = PopAll(jcv_sgmpsg_state_load, m.sgmpsg, sstate, p3, junk),
            !.vdp = PopAll(jcv_vdp_state_load, m.vdp, sstate, p4, junk),
            !.z80ctx = PopAll(jcv_z80_state_load, m.z80ctx, sstate, p5, junk),
            !.pos = p6]

\* file is NULL when fopen fails, else the bytes of the file
jcv_state_load(m, file, junk) ==
    IF file = NULL THEN [ret |-> 0, m |-> m]
    ELSE [ret |-> 1, m |-> jcv_state_load_raw(m, file, junk)]

CvsysSave ==
    Blk("ram", SIZE_CVRAM) \o Blk("sgmram", SIZE_32K) \o Fld(1, "cseg")
    \o Elems(2, "ctrl", 2)

RompageSave == Elems(4, "rompage", 4)

jcv_state_save_raw(m) ==
    LET p0 == jcv_serial_begin
        p1 == p0 + Width(CvsysSave)
        p2 == p1 + Width(RompageSave)
        p3 == p2 + Width(jcv_psg_state_save)
        p4 == p3 + Width(jcv_sgmpsg_state_save)
        p5 == p4 + Width(jcv_vdp_state_save)
        p6 == p5 + Width(jcv_z80_state_save)
    IN  [m EXCEPT
            !.state =
                PushAll(jcv_z80_state_save, m.z80ctx,
                  PushAll(jcv_vdp_state_save, m.vdp,
                    PushAll(jcv_sgmpsg_state_save, m.sgmpsg,
                      PushAll(jcv_psg_state_save, m.psg,
                        PushAll(RompageSave, m,
                          PushAll(CvsysSave, m.cvsys, @, p0), p1), p2), p3), p4), p5),
            !.pos = p6]

\* the file written holds jcv_state_size() bytes of the static buffer
jcv_state_save(m, writable) ==
    IF ~writable THEN [ret |-> 0, m |-> m, file |-> NULL]
    ELSE LET n == jcv_state_save_raw(m)
         IN  [ret |-> 1, m |-> n, file |-> [n.state EXCEPT !.len = jcv_state_size]]

(***************************************************************************)
(* Frontend (JollyCVGameCore): raw-buffer save and load.                   *)
(***************************************************************************)
serializeStateWithError(m) ==
    LET n == jcv_state_save_raw(m)
    IN  [m |-> n, data |-> [n.state EXCEPT !.len = jcv_state_size]]

deserializeState(m, data, junk) ==
    LET n == jcv_state_load_raw(m, data, junk)
    IN  [ret |-> IF jcv_state_size # data.len THEN 0 ELSE 1, m |-> n]

(***************************************************************************)
(* jcv: init and reset of the whole machine.  Statics is the zeroed        *)
(* static storage the process starts with.                                 *)
(***************************************************************************)
Statics ==
    [cvsys |-> [ram |-> ArrConst(SIZE_CVRAM, 0), sgmram |-> ArrConst(SIZE_32K, 0),
                cseg |-> 0, ctrl |-> [i \in 0 .. 1 |-> 0]],
     rompage |-> [i \in 0 .. 3 |-> 0], megacart |-> 0, sgm_upper |-> 0,
     sgm_lower |-> 0, romdata |-> NULL, romsize |-> 0, rompages |-> 0,
     cvbios |-> NULL, bios_internal |-> 0,
     psg |-> PsgZero, sgmpsg |-> jcv_sgmpsg_init, vdp |-> jcv_vdp_init,
     z80ctx |-> z80_init, extracycs |-> 0, delaycycs |-> 0, nmis |-> 0,
     psgbufpos |-> 0, sgmbufpos |-> 0, psgbuf |-> 0, sgmpsgbuf |-> 0,
     psgcycs |-> 0, psgsamps |-> 0, sgmpsgsamps |-> 0,
     numscanlines |-> CV_VDP_SCANLINES,
     state |-> BlobZero(SIZE_STATE), pos |-> 0]

\* the scheduler's numscanlines and the VDP's are set together: one field
jcv_set_region(m, region) == jcv_vdp_set_region(m, region)

jcv_init(m, rnd) ==
    [jcv_memio_init(m, rnd) EXCEPT !.psg = jcv_psg_init(@),
                                   !.sgmpsg = jcv_sgmpsg_init,
                                   !.vdp = jcv_vdp_init,
                                   !.z80ctx = z80_init]

jcv_reset(m, rnd) ==
    [jcv_memio_init(m, rnd) EXCEPT !.psg = jcv_psg_init(@),
                                   !.sgmpsg = jcv_sgmpsg_init,
                                   !.vdp = jcv_vdp_init,
                                   !.z80ctx = z80_init]

\* the emulator state proper: everything but the serialiser's scratch
EmuState(m) == [f \in (DOMAIN m) \ {"state", "pos"} |-> m[f]]

(***************************************************************************)
(* jcv_z80: one instruction.  step is what the interpreter does to the     *)
(* register file and cyc the cycles it reports.                            *)
(***************************************************************************)
z80_step(z) ==
    IF z.nmi_pending # 0
    THEN [z EXCEPT !.nmi_pending = 0, !.halted = 0, !.iff1 = 0, !.pc = 102,
                   !.sp = U16(@ - 2), !.r = (@ + 1) % 128]
    ELSE [z EXCEPT !.pc = U16(@ + 1), !.r = (@ + 1) % 128]

jcv_z80_exec(m, cyc) ==
    [ret |-> U32(cyc + m.delaycycs),
     m |-> [m EXCEPT !.z80ctx = z80_step(@), !.delaycycs = 0]]

\* the residue of the last frame, kept between two calls of jcv_exec
jcv_z80_cyc_store(m, cycs) == [m EXCEPT !.extracycs = cycs]

jcv_z80_cyc_restore(m) ==
    [ret |-> m.extracycs, m |-> [m EXCEPT !.extracycs = 0]]

(***************************************************************************)
(* jcv_mixer and jcv_exec: one frame, as the steps of its loops.  r holds  *)
(* the locals of jcv_exec and pc the place it has reached: "z80" inside    *)
(* the while loop, "vdp" after it, "mix" after the for loop.               *)
(***************************************************************************)
\* jcv_mixer_resamp leaving the write positions where they are
jcv_mixer_resamp_keep(m, in_psg, in_sgmpsg) ==
    [m EXCEPT !.psgbuf = IF in_sgmpsg # 0 /\ in_psg > 0
                         THEN S16(@ + m.sgmpsgbuf) ELSE @]

\* the buffers start over and, with the SGM active, every cell of the
\* first buffer takes the sum of the two cells, kept in an int16_t;
\* resampling leaves the machine alone
jcv_mixer_resamp(m, in_psg, in_sgmpsg) ==
    [m EXCEPT !.psgbufpos = 0, !.sgmbufpos = 0,
              !.psgbuf = IF in_sgmpsg # 0 /\ in_psg > 0
                         THEN S16(@ + m.sgmpsgbuf) ELSE @]

\* PsgTick clocking the SN76489 alone
PsgTick_alone(m) ==
    [jcv_psg_exec(m) EXCEPT !.psgsamps = @ + 1, !.psgcycs = 0]

\* the sixteenth cycle: both chips make a sample and the divider starts over
PsgTick(m) ==
    [Eager(jcv_sgmpsg_exec, jcv_psg_exec(m)) EXCEPT !.psgsamps = @ + 1,
                                             !.sgmpsgsamps = @ + 1,
                                             !.psgcycs = 0]

\* the for loop over the s cycles of an instruction, taken a run of cycles
\* at a time: up to the next sixteenth cycle, or to the end
RECURSIVE PsgFeed(_, _)
PsgFeed(m, s) ==
    Force({ IF b.psgcycs + s < DIV_PSG
            THEN [b EXCEPT !.psgcycs = @ + s]
            ELSE PsgFeed(PsgTick(b), s - (DIV_PSG - b.psgcycs)) : b \in {m} })

\* ExecLineBegin running one scanline more than the region has
ExecLineBegin_late(m, r) ==
    IF r.i <= m.numscanlines
    THEN LET req == Z80_CYC_LINE - r.extcycs
         IN  [r EXCEPT !.reqcycs = req, !.linecycs = 0,
                       !.pc = IF 0 < req THEN "z80" ELSE "vdp"]
    ELSE [r EXCEPT !.pc = "mix"]

\* the head of the for loop and of the while loop
ExecLineBegin(m, r) ==
    IF r.i < m.numscanlines
    THEN LET req == Z80_CYC_LINE - r.extcycs
         IN  [r EXCEPT !.reqcycs = req, !.linecycs = 0,
                       !.pc = IF 0 < req THEN "z80" ELSE "vdp"]
    ELSE [r EXCEPT !.pc = "mix"]

jcv_exec_begin(m, r) ==
    LET x == jcv_z80_cyc_restore([m EXCEPT !.psgsamps = 0, !.sgmpsgsamps = 0])
    IN  [m |-> x.m,
         run |-> ExecLineBegin(x.m, [r EXCEPT !.extcycs = x.ret, !.i = 0])]

\* jcv_exec_instr losing the cycles run past the end of the scanline
jcv_exec_instr_capped(m, r, cyc, data) ==
    Force({ LET lc == r.linecycs + x.ret
            IN  [m |-> PsgFeed(x.m, x.ret), itercycs |-> x.ret,
                 run |-> [r EXCEPT !.linecycs = IF lc < r.reqcycs THEN lc ELSE r.reqcycs,
                                   !.pc = IF lc < r.reqcycs THEN "z80" ELSE "vdp"]] :
            x \in {jcv_z80_exec(IF data >= 0 THEN jcv_io_wr(m, 255, data) ELSE m,
                                cyc)} })

\* one pass of the while loop: an instruction, which may write data to the
\* PSG's port, and the PSG cycles its Z80 cycles pay for
jcv_exec_instr(m, r, cyc, data) ==
    Force({ LET lc == r.linecycs + x.ret
            IN  [m |-> PsgFeed(x.m, x.ret), itercycs |-> x.ret,
                 run |-> [r EXCEPT !.linecycs = lc,
                                   !.pc = IF lc < r.reqcycs THEN "z80" ELSE "vdp"]] :
            x \in {jcv_z80_exec(IF data >= 0 THEN jcv_io_wr(m, 255, data) ELSE m,
                                cyc)} })

\* jcv_exec_line carrying the whole line's cycles over
jcv_exec_line_whole(m, r, oob) ==
    LET v == jcv_vdp_exec(m, oob)
    IN  [m |-> v,
         run |-> ExecLineBegin(v, [r EXCEPT !.extcycs = r.linecycs,
                                            !.i = @ + 1])]

\* the end of a pass of the for loop
jcv_exec_line(m, r, oob) ==
    LET v == jcv_vdp_exec(m, oob)
    IN  [m |-> v,
         run |-> ExecLineBegin(v, [r EXCEPT !.extcycs = r.linecycs - r.reqcycs,
                                            !.i = @ + 1])]

jcv_exec_end(m, r) ==
    [m |-> jcv_z80_cyc_store(jcv_mixer_resamp(m, m.psgsamps, m.sgmpsgsamps),
                             r.extcycs),
     run |-> [r EXCEPT !.pc = "idle"]]

(***************************************************************************)
(* Inputs.                                                                 *)
(***************************************************************************)
Cart8K    == [id |-> "cart8k", size |-> 8192, head |-> <<170, 85>>, top |-> <<0, 0>>]
Cart12K   == [id |-> "cart12k", size |-> 12288, head |-> <<85, 170>>, top |-> <<0, 0>>]
Cart32K   == [id |-> "cart32k", size |-> 32768, head |-> <<85, 170>>, top |-> <<1, 2>>]
Bad16K    == [id |-> "bad16k", size |-> 16384, head |-> <<170, 170>>, top |-> <<0, 0>>]
Mega128K  == [id |-> "mega128k", size |-> 131072, head |-> <<16, 32>>, top |-> <<85, 170>>]
Mega64K   == [id |-> "mega64k", size |-> 65536, head |-> <<170, 85>>, top |-> <<170, 85>>]
Head64K   == [id |-> "head64k", size |-> 65536, head |-> <<170, 85>>, top |-> <<3, 4>>]
Bad64K    == [id |-> "bad64k", size |-> 65536, head |-> <<85, 85>>, top |-> <<85, 85>>]

Images == {Cart8K, Cart12K, Cart32K, Bad16K, Mega128K, Mega64K, Head64K, Bad64K}
BootImages == {Cart8K, Cart12K, Mega128K, Mega64K}

BiosFile == [id |-> "coleco.rom", size |-> 8192, ok |-> TRUE]
BiosFiles == {NULL, BiosFile,
              [id |-> "short.rom", size |-> 4096, ok |-> TRUE],
              [id |-> "long.rom", size |-> 16384, ok |-> TRUE],
              [id |-> "unreadable.rom", size |-> 8192, ok |-> FALSE]}
BiosBufs == {[id |-> "buf8k", size |-> 8192], [id |-> "buf4k", size |-> 4096],
             [id |-> "buf16k", size |-> 16384]}

RamFills == {0, 165}
JunkBytes == {0, 90}

MemAddrs == {0, 8191, 8192, 24575, 24576, 26623, 32767, 32768, 49151, 49152,
             65471, 65473, 65474, 65535}
MemWrAddrs == {0, 8192, 24576, 26623, 32767, 32768, 65473}
MemWrData == {90, 255}
SgmPortWrites == {<<83, 0>>, <<127, 253>>, <<127, 255>>}

(***************************************************************************)
(* State.  emu is the machine (every static of the core); call and ret     *)
(* record the last entry point called, its arguments and what it returned; *)
(* snap is the save state the frontend holds (file or NSData); nops counts *)
(* the calls made.  twin is a second machine, twinret its last return      *)
(* value and phase the stage of the two-machine experiment.  lines counts  *)
(* the scanlines run, that is the calls of jcv_vdp_exec.                   *)
(***************************************************************************)
VARIABLES emu, call, ret, snap, nops, twin, twinret, phase, lines, run

\* run: where jcv_exec stands (pc, its locals i, extcycs, reqcycs, linecycs)
\* and what an observer has counted so far: Z80 cycles, frames, mixer
\* callbacks, scanlines, PSG cycles, noise shifts and envelope steps
RunIdle ==
    [pc |-> "idle", i |-> 0, extcycs |-> 0, reqcycs |-> 0, linecycs |-> 0,
     cycles |-> 0, frames |-> 0, mixes |-> 0, vdps |-> 0, execs |-> 0,
     shifts |-> 0, sgmexecs |-> 0, steps |-> 0, prog |-> <<>>, ip |-> 1]

vars == <<emu, call, ret, snap, nops, twin, twinret, phase, lines, run>>

Call(op, a, d) == [op |-> op, a |-> a, d |-> d]

\* the frontend's loadFileAtPath: init, BIOS file, ROM image
loadFileAtPath(img, rnd) ==
    jcv_rom_load(jcv_bios_load_file(jcv_init(jcv_set_region(Statics, 0), rnd),
                                    BiosFile).m,
                 img, img.size, 0).m

\* the Z80 only runs, and so the bus is only driven, with a BIOS and a ROM
Running(m) == m.cvbios # NULL /\ m.romdata # NULL

Init ==
    /\ \E rnd \in RamFills :
          \/ emu = jcv_init(Statics, rnd)
          \/ \E img \in BootImages : emu = loadFileAtPath(img, rnd)
    /\ call = Call("init", 0, 0)
    /\ ret = 0
    /\ snap = NULL
    /\ nops = 0
    /\ twin = NULL
    /\ twinret = 0
    /\ phase = "single"
    /\ run = RunIdle
    /\ lines = 0

Single == UNCHANGED <<twin, twinret, phase, lines, run>>

MemRd(addr, junk) ==
    /\ Running(emu)
    /\ LET r == jcv_mem_rd(emu, addr, junk)
       IN  emu' = r.m /\ ret' = r.ret
    /\ call' = Call("mem_rd", addr, 0)
    /\ nops' = nops + 1
    /\ UNCHANGED snap /\ Single

MemWr(addr, data) ==
    /\ Running(emu)
    /\ emu' = jcv_mem_wr(emu, addr, data)
    /\ ret' = 0
    /\ call' = Call("mem_wr", addr, data)
    /\ nops' = nops + 1
    /\ UNCHANGED snap /\ Single

IoRd(port, v) ==
    /\ Running(emu)
    /\ LET r == jcv_io_rd(emu, port, v)
       IN  emu' = r.m /\ ret' = r.ret
    /\ call' = Call("io_rd", port, v)
    /\ nops' = nops + 1
    /\ UNCHANGED snap /\ Single

IoWr(port, data) ==
    /\ Running(emu)
    /\ emu' = jcv_io_wr(emu, port, data)
    /\ ret' = 0
    /\ call' = Call("io_wr", port, data)
    /\ nops' = nops + 1
    /\ UNCHANGED snap /\ Single

Reset(rnd) ==
    /\ emu' = jcv_reset(emu, rnd)
    /\ ret' = 0
    /\ call' = Call("reset", 0, 0)
    /\ nops' = nops + 1
    /\ UNCHANGED snap /\ Single

Z80Exec(cyc) ==
    /\ Running(emu)
    /\ LET r == jcv_z80_exec(emu, cyc)
       IN  emu' = r.m /\ ret' = r.ret
    /\ call' = Call("z80_exec", cyc, 0)
    /\ nops' = nops + 1
    /\ UNCHANGED snap /\ Single

BiosLoadFile(file) ==
    /\ LET r == jcv_bios_load_file(emu, file)
       IN  emu' = r.m /\ ret' = r.ret
    /\ call' = Call("bios_load_file", IF file = NULL THEN -1 ELSE file.size, 0)
    /\ nops' = nops + 1
    /\ UNCHANGED snap /\ Single

BiosLoad(buf) ==
    /\ LET r == jcv_bios_load(emu, buf, buf.size)
       IN  emu' = r.m /\ ret' = r.ret
    /\ call' = Call("bios_load", buf.size, 0)
    /\ nops' = nops + 1
    /\ UNCHANGED snap /\ Single

RomLoad(img, junk) ==
    /\ LET r == jcv_rom_load(emu, img, img.size, junk)
       IN  emu' = r.m /\ ret' = r.ret
    /\ call' = Call("rom_load", img.size, img)
    /\ nops' = nops + 1
    /\ UNCHANGED snap /\ Single

StateSave(writable) ==
    /\ LET r == jcv_state_save(emu, writable)
       IN  /\ emu' = r.m
           /\ ret' = r.ret
           /\ snap' = IF writable THEN r.file ELSE snap
    /\ call' = Call("state_save", 0, 0)
    /\ nops' = nops + 1
    /\ Single

SerializeState ==
    /\ LET r == serializeStateWithError(emu)
       IN  emu' = r.m /\ snap' = r.data
    /\ ret' = 1
    /\ call' = Call("serialize", 0, 0)
    /\ nops' = nops + 1
    /\ Single

\* the files a load can be given: the snapshot held, and the same bytes cut
\* short or followed by extra zero bytes
Resized(blob, len) == [blob EXCEPT !.len = len]

StateLoad(len, junk) ==
    /\ snap # NULL
    /\ LET r == jcv_state_load(emu, Resized(snap, len), junk)
       IN  emu' = r.m /\ ret' = r.ret
    /\ call' = Call("state_load", len, 0)
    /\ nops' = nops + 1
    /\ UNCHANGED snap /\ Single

StateLoadMissing ==
    /\ LET r == jcv_state_load(emu, NULL, 0)
       IN  emu' = r.m /\ ret' = r.ret
    /\ call' = Call("state_load", -1, 0)
    /\ nops' = nops + 1
    /\ UNCHANGED snap /\ Single

DeserializeState(len, junk) ==
    /\ snap # NULL
    /\ LET r == deserializeState(emu, Resized(snap, len), junk)
       IN  emu' = r.m /\ ret' = r.ret
    /\ call' = Call("deserialize", len, 0)
    /\ nops' = nops + 1
    /\ UNCHANGED snap /\ Single

\* one scanline of the scheduler's loop: call records the line rendered
VdpExec(oob) ==
    /\ Running(emu)
    /\ emu' = jcv_vdp_exec(emu, oob)
    /\ ret' = 0
    /\ call' = Call("vdp_exec", emu.vdp.line, 0)
    /\ lines' = lines + 1
    /\ UNCHANGED <<snap, nops, twin, twinret, phase, run>>

\* one call of jcv_psg_exec; the observer counts a shift whenever the noise
\* register comes back changed
PsgExec ==
    /\ emu' = jcv_psg_exec(emu)
    /\ ret' = 1
    /\ call' = Call("psg_exec", 0, 0)
    /\ lines' = lines + 1
    /\ run' = [run EXCEPT !.execs = @ + 1,
                          !.shifts = IF emu'.psg.lfsr # emu.psg.lfsr
                                     THEN @ + 1 ELSE @]
    /\ UNCHANGED <<snap, nops, twin, twinret, phase>>

\* one call of jcv_sgmpsg_exec; the observer counts a noise shift and an
\* envelope step whenever the counter comes back at zero
SgmpsgExec ==
    /\ emu' = jcv_sgmpsg_exec(emu)
    /\ ret' = 1
    /\ call' = Call("sgmpsg_exec", 0, 0)
    /\ lines' = lines + 1
    /\ run' = [run EXCEPT !.execs = @ + 1,
                          !.shifts = IF emu'.sgmpsg.ncounter = 0
                                     THEN @ + 1 ELSE @,
                          !.steps = IF emu'.sgmpsg.ecounter = 0
                                    THEN @ + 1 ELSE @]
    /\ UNCHANGED <<snap, nops, twin, twinret, phase>>

\* the four places of jcv_exec; the observer counts frames, Z80 cycles,
\* calls of the two chips, scanlines and audio callbacks
ExecBegin ==
    /\ Running(emu) /\ run.pc = "idle"
    /\ LET x == jcv_exec_begin(emu, run)
       IN  emu' = x.m /\ run' = [x.run EXCEPT !.frames = @ + 1]
    /\ call' = Call("exec", 0, 0)
    /\ UNCHANGED <<ret, snap, nops, twin, twinret, phase, lines>>

\* the instruction at ip of the program: its cycles and the byte it sends
\* to the PSG, if any
ExecInstr ==
    /\ run.pc = "z80"
    /\ LET ins == run.prog[run.ip]
           x == jcv_exec_instr(emu, run, ins[1], ins[2])
       IN  /\ emu' = x.m
           /\ run' = [x.run EXCEPT
                         !.ip = (run.ip % Len(run.prog)) + 1,
                         !.cycles = @ + x.itercycs,
                         !.execs = @ + (x.m.psgbufpos - emu.psgbufpos),
                         !.sgmexecs = @ + (x.m.sgmbufpos - emu.sgmbufpos)]
           /\ ret' = x.itercycs
           /\ call' = Call("z80_exec", ins[1], ins[2])
    /\ UNCHANGED <<snap, nops, twin, twinret, phase, lines>>

ExecLine ==
    /\ run.pc = "vdp"
    /\ LET x == jcv_exec_line(emu, run, FALSE)
       IN  emu' = x.m /\ run' = [x.run EXCEPT !.vdps = @ + 1]
    /\ ret' = 0
    /\ call' = Call("vdp_exec", emu.vdp.line, 0)
    /\ lines' = lines + 1
    /\ UNCHANGED <<snap, nops, twin, twinret, phase>>

ExecEnd ==
    /\ run.pc = "mix"
    /\ LET x == jcv_exec_end(emu, run)
       IN  emu' = x.m /\ run' = [x.run EXCEPT !.mixes = @ + 1]
    /\ ret' = 0
    /\ call' = Call("mixer_cb", emu.psgsamps, emu.sgmpsgsamps)
    /\ UNCHANGED <<snap, nops, twin, twinret, phase, lines>>

SetRegion(region) ==
    /\ emu' = jcv_set_region(emu, region)
    /\ ret' = 0
    /\ call' = Call("set_region", region, 0)
    /\ nops' = nops + 1
    /\ UNCHANGED snap /\ Single

(***************************************************************************)
(* The memory bus: reads, writes, the SGM enable ports and reset.          *)
(***************************************************************************)
\* no read of this specification leaves its buffer, so junk plays no part
MemBusRd == \E addr \in MemAddrs : MemRd(addr, 0)
MemBusWr == \E addr \in MemWrAddrs, data \in MemWrData : MemWr(addr, data)
MemSgmPort == \E w \in SgmPortWrites : IoWr(w[1], w[2])
MemReset == \E rnd \in RamFills : Reset(rnd)

NextMem ==
    /\ nops < MaxMemOps
    /\ (MemBusRd \/ MemBusWr \/ MemSgmPort \/ MemReset)

SpecMem == Init /\ [][NextMem]_vars

(***************************************************************************)
(* The loaders: BIOS from file or buffer, ROM images, and reads of what    *)
(* they mapped.                                                            *)
(***************************************************************************)
LoadAddrs == {0, 32768, 40960, 49152, 65472, 65473}

LoadBiosFile == \E file \in BiosFiles : BiosLoadFile(file)
LoadBiosBuf == \E buf \in BiosBufs : BiosLoad(buf)
LoadRom == \E img \in Images, junk \in JunkBytes : RomLoad(img, junk)
LoadMemRd == \E addr \in LoadAddrs, junk \in JunkBytes : MemRd(addr, junk)

NextLoad ==
    /\ nops < MaxLoadOps
    /\ (LoadBiosFile \/ LoadBiosBuf \/ LoadRom \/ LoadMemRd)

SpecLoad == Init /\ [][NextLoad]_vars

(***************************************************************************)
(* Save states: bus traffic that changes every part of the machine, then   *)
(* save and load through the file and the raw-buffer entry points.         *)
(***************************************************************************)
StateIoWrites == {<<255, 138>>, <<190, 119>>, <<80, 13>>, <<83, 0>>}
StateIoReads == {<<252, 32908>>}
StateLens == {SIZE_STATE, SIZE_STATE + 1}
\* a file one byte shorter than what a load pops
ShortLen == SIZE_STATE - 44

StateIoWr == \E w \in StateIoWrites : IoWr(w[1], w[2])
StateIoRd == \E r \in StateIoReads : IoRd(r[1], r[2])
StateMemWr == MemWr(24576, 90)
StateMemRd == MemRd(65473, 0)
StateZ80Exec == Z80Exec(4)
StateSaveFile == \E writable \in BOOLEAN : StateSave(writable)
StateSerialize == SerializeState
StateLoadFile ==
    \/ \E len \in StateLens : StateLoad(len, 0)
    \/ \E junk \in JunkBytes : StateLoad(ShortLen, junk)
    \/ StateLoadMissing
StateDeserialize ==
    \/ \E len \in StateLens : DeserializeState(len, 0)
    \/ \E junk \in JunkBytes : DeserializeState(ShortLen, junk)

NextState ==
    /\ nops < MaxStateOps
    /\ \/ StateIoWr \/ StateIoRd \/ StateMemWr \/ StateMemRd \/ StateZ80Exec
       \/ StateSaveFile \/ StateSerialize \/ StateLoadFile \/ StateDeserialize

\* the save-state experiments start from a booted Mega Cart
InitState == Init /\ Running(emu) /\ emu.romsize = Mega128K.size

SpecState == InitState /\ [][NextState]_vars

(***************************************************************************)
(* Two machines with the same BIOS and ROM.  Each first does bus traffic   *)
(* of its own (phase "free"); emu then takes a snapshot, both load it, and *)
(* from then on (phase "lock") every operation is applied to both.         *)
(***************************************************************************)
TwinFreeOps == {<<"io_wr", 83, 0>>, <<"io_wr", 127, 253>>, <<"io_wr", 255, 138>>,
                <<"mem_rd", 65473, 0>>}
TwinLockOps == {<<"mem_rd", 0, 0>>, <<"mem_rd", 24576, 0>>, <<"mem_rd", 49152, 0>>,
                <<"z80_exec", 4, 0>>}

\* one bus operation o = <<op, a, d>> on machine m: the value returned and
\* the machine after it
BusOp(m, o) ==
    IF o[1] = "io_wr" THEN [ret |-> 0, m |-> jcv_io_wr(m, o[2], o[3])]
    ELSE IF o[1] = "mem_rd" THEN jcv_mem_rd(m, o[2], 0)
    ELSE jcv_z80_exec(m, o[2])

InitTwin ==
    /\ \E rnd \in RamFills : emu = loadFileAtPath(Mega128K, rnd)
    /\ \E rnd \in RamFills : twin = loadFileAtPath(Mega128K, rnd)
    /\ call = Call("init", 0, 0)
    /\ ret = 0
    /\ twinret = 0
    /\ snap = NULL
    /\ nops = 0
    /\ phase = "free"
    /\ lines = 0
    /\ run = RunIdle

TwinFreeA ==
    \E o \in TwinFreeOps :
        /\ phase = "free"
        /\ nops < MaxTwinFree
        /\ LET r == BusOp(emu, o)
           IN  emu' = r.m /\ ret' = r.ret
        /\ call' = Call(o[1], o[2], o[3])
        /\ nops' = nops + 1
        /\ UNCHANGED <<snap, twin, twinret, phase, lines, run>>

TwinFreeB ==
    \E o \in TwinFreeOps :
        /\ phase = "free"
        /\ nops < MaxTwinFree
        /\ LET r == BusOp(twin, o)
           IN  twin' = r.m /\ twinret' = r.ret
        /\ call' = Call(o[1], o[2], o[3])
        /\ nops' = nops + 1
        /\ UNCHANGED <<snap, emu, ret, phase, lines, run>>

TwinSave ==
    /\ phase = "free"
    /\ LET r == serializeStateWithError(emu)
       IN  emu' = r.m /\ snap' = r.data
    /\ ret' = 1
    /\ call' = Call("serialize", 0, 0)
    /\ nops' = nops + 1
    /\ phase' = "saved"
    /\ UNCHANGED <<twin, twinret, lines, run>>

TwinLoadA ==
    /\ phase = "saved"
    /\ LET r == deserializeState(emu, snap, 0)
       IN  emu' = r.m /\ ret' = r.ret
    /\ call' = Call("deserialize", snap.len, 0)
    /\ nops' = nops + 1
    /\ phase' = "loaded"
    /\ UNCHANGED <<snap, twin, twinret, lines, run>>

TwinLoadB ==
    /\ phase = "loaded"
    /\ LET r == deserializeState(twin, snap, 0)
       IN  twin' = r.m /\ twinret' = r.ret
    /\ call' = Call("deserialize", snap.len, 0)
    /\ nops' = nops + 1
    /\ phase' = "lock"
    /\ UNCHANGED <<snap, emu, ret, lines, run>>

TwinStep ==
    \E o \in TwinLockOps :
        /\ phase = "lock"
        /\ LET ra == BusOp(emu, o)
               rb == BusOp(twin, o)
           IN  /\ emu' = ra.m /\ ret' = ra.ret
               /\ twin' = rb.m /\ twinret' = rb.ret
        /\ call' = Call(o[1], o[2], o[3])
        /\ nops' = nops + 1
        /\ UNCHANGED <<snap, phase, lines, run>>

NextTwin ==
    /\ nops < MaxTwinOps
    /\ (TwinFreeA \/ TwinFreeB \/ TwinSave \/ TwinLoadA \/ TwinLoadB \/ TwinStep)

SpecTwin == InitTwin /\ [][NextTwin]_vars

(***************************************************************************)
(* The I/O ports: controller strobes and reads, the VDP's ports, the PSG   *)
(* port, the SGM enables, with memory accesses, instructions and resets    *)
(* in between.                                                             *)
(***************************************************************************)
IoRdPorts == {252, 255, 190, 191, 82}
IoInputs == {32908, 36993}
IoWrites == {<<128, 0>>, <<159, 255>>, <<192, 0>>, <<223, 7>>,
             <<191, 32>>, <<191, 129>>, <<190, 119>>,
             <<255, 138>>, <<224, 5>>,
             <<83, 0>>, <<127, 253>>, <<127, 255>>, <<80, 13>>}
IoMemAddrs == {0, 8191, 24576}

IoPortRd == \E port \in IoRdPorts, v \in IoInputs : IoRd(port, v)
IoPortWr == \E w \in IoWrites : IoWr(w[1], w[2])
IoMemRd == \E addr \in IoMemAddrs : MemRd(addr, 0)
IoMemWr == \E addr \in IoMemAddrs : MemWr(addr, 90)
IoZ80Exec == Z80Exec(4)
IoReset == Reset(165)

NextIo ==
    /\ nops < MaxIoOps
    /\ (IoPortRd \/ IoPortWr \/ IoMemRd \/ IoMemWr \/ IoZ80Exec \/ IoReset)

InitIo == Init /\ Running(emu) /\ emu.romdata = Cart8K

SpecIo == InitIo /\ [][NextIo]_vars

(***************************************************************************)
(* Frames: the scheduler calls jcv_vdp_exec line after line; the program   *)
(* has set register 1 through the control port and touches the VDP's ports *)
(* during vertical blanking.                                               *)
(***************************************************************************)
\* register 1 as the program left it, and the region the frontend chose
FrameSetups == {<<0, 1>>, <<32, 0>>, <<96, 1>>}
FrameCtrlWrites == {32, 129, 135}

FrameBoot(r1, region) ==
    jcv_io_wr(jcv_io_wr(jcv_set_region(loadFileAtPath(Cart8K, 0), region),
                        191, r1),
              191, 129)

InitFrame ==
    /\ \E su \in FrameSetups : emu = FrameBoot(su[1], su[2])
    /\ call = Call("io_wr", 191, 129)
    /\ ret = 0
    /\ snap = NULL
    /\ nops = 0
    /\ twin = NULL
    /\ twinret = 0
    /\ phase = "single"
    /\ run = RunIdle
    /\ lines = 0

\* no sprite of these frames reaches the columns left of the screen
FrameVdpExec == lines < MaxFrameLines /\ VdpExec(FALSE)
FrameStatRd == emu.vdp.line = CV_VDP_HEIGHT /\ nops < MaxFrameOps /\ IoRd(191, 0)
FrameCtrlWr ==
    \E d \in FrameCtrlWrites :
        emu.vdp.line = CV_VDP_HEIGHT /\ nops < MaxFrameOps /\ IoWr(191, d)

NextFrame == FrameVdpExec \/ FrameStatRd \/ FrameCtrlWr

SpecFrame == InitFrame /\ [][NextFrame]_vars

(***************************************************************************)
(* Sprites: the program has filled the sprite attribute table (at VRAM 0)  *)
(* and the sprite patterns (at VRAM 0x800) through the VDP's ports; the    *)
(* scheduler renders the first lines of a frame and the program reads the  *)
(* status register when it finds the fifth-sprite flag set.                *)
(***************************************************************************)
\* pattern 0 has its four left pixels set on every row, pattern 1 its four
\* right pixels
SprPatterns == <<240, 240, 240, 240, 240, 240, 240, 240,
                 15, 15, 15, 15, 15, 15, 15, 15>>

\* register 1 and the attribute table (Y, X, name, colour of each entry)
SprLayouts ==
    { [id |-> "five", r1 |-> 64,
       sattr |-> <<0, 0, 0, 1,  0, 16, 0, 2,  0, 32, 0, 3,  0, 48, 0, 4,
                   0, 64, 0, 5,  0, 80, 0, 6,  208, 0, 0, 0>>],
      [id |-> "four", r1 |-> 64,
       sattr |-> <<0, 0, 0, 1,  0, 16, 0, 2,  0, 32, 0, 3,  0, 48, 0, 4,
                   208, 0, 0, 0>>],
      [id |-> "cut", r1 |-> 64,
       sattr |-> <<0, 0, 0, 1,  0, 16, 0, 2,  208, 0, 0, 0,  0, 32, 0, 3,
                   0, 48, 0, 4,  0, 64, 0, 5,  0, 80, 0, 6,  208, 0, 0, 0>>],
      [id |-> "text", r1 |-> 80,
       sattr |-> <<0, 0, 0, 1,  0, 16, 0, 2,  0, 32, 0, 3,  0, 48, 0, 4,
                   0, 64, 0, 5,  208, 0, 0, 0>>],
      [id |-> "big", r1 |-> 67,
       sattr |-> <<0, 0, 0, 1,  2, 40, 0, 2,  4, 80, 0, 3,  6, 120, 0, 4,
                   8, 160, 0, 5,  208, 0, 0, 0>>],
      [id |-> "hit", r1 |-> 64,
       sattr |-> <<0, 10, 0, 1,  0, 12, 0, 2,  208, 0, 0, 0>>],
      [id |-> "hit0", r1 |-> 64,
       sattr |-> <<0, 10, 0, 0,  0, 12, 0, 0,  208, 0, 0, 0>>],
      [id |-> "hitec", r1 |-> 64,
       sattr |-> <<0, 42, 0, 128,  0, 44, 0, 128,  208, 0, 0, 0>>],
      [id |-> "miss", r1 |-> 64,
       sattr |-> <<0, 10, 0, 1,  0, 14, 0, 2,  208, 0, 0, 0>>],
      [id |-> "edge", r1 |-> 64,
       sattr |-> <<0, 28, 0, 129,  208, 0, 0, 0>>] }

\* the bytes k.. of a sequence written to one port
RECURSIVE IoWrAll(_, _, _, _)
IoWrAll(m, port, bytes, k) ==
    Force({IF k > Len(bytes) THEN b
           ELSE IoWrAll(jcv_io_wr(b, port, bytes[k]), port, bytes, k + 1) :
           b \in {m}})

\* the program's VRAM fill: address with the write flag, then the data
VramFill(m, addr, bytes) ==
    IoWrAll(IoWrAll(m, 191, <<addr % 256, 64 + (addr \div 256)>>, 1),
            190, bytes, 1)

SprBoot(lay) ==
    VramFill(VramFill(IoWrAll(loadFileAtPath(Cart8K, 0), 191,
                              <<1, 134, lay.r1, 129>>, 1),
                      0, lay.sattr),
             2048, SprPatterns)

InitSpr ==
    /\ \E lay \in SprLayouts : emu = SprBoot(lay)
    /\ call = Call("io_wr", 190, 15)
    /\ ret = 0
    /\ snap = NULL
    /\ nops = 0
    /\ twin = NULL
    /\ twinret = 0
    /\ phase = "single"
    /\ run = RunIdle
    /\ lines = 0

\* what the renderer finds left of the screen is not defined
SprVdpExec == \E oob \in BOOLEAN : lines < MaxSprLines /\ VdpExec(oob)
\* the program reads the status register once the fifth-sprite flag is up
SprStatRd == BitAnd(emu.vdp.stat, 64) # 0 /\ nops < MaxSprOps /\ IoRd(191, 0)

NextSpr == SprVdpExec \/ SprStatRd

SpecSpr == InitSpr /\ [][NextSpr]_vars

(***************************************************************************)
(* Regions: scanlines are rendered one after the other while the frontend  *)
(* selects a region or resets the machine at any line.                     *)
(***************************************************************************)
RegionVdpExec == lines < MaxRegionLines /\ VdpExec(FALSE)
RegionSet == \E region \in {0, 1} : nops < MaxRegionOps /\ SetRegion(region)
RegionReset == nops < MaxRegionOps /\ Reset(0)

NextRegion == RegionVdpExec \/ RegionSet \/ RegionReset

InitRegion ==
    /\ \E region \in {0, 1} : emu = jcv_set_region(loadFileAtPath(Cart8K, 0), region)
    /\ call = Call("set_region", 0, 0)
    /\ ret = 0
    /\ snap = NULL
    /\ nops = 0
    /\ twin = NULL
    /\ twinret = 0
    /\ phase = "single"
    /\ run = RunIdle
    /\ lines = 0

SpecRegion == InitRegion /\ [][NextRegion]_vars

(***************************************************************************)
(* Frames: the frontend calls jcv_exec frame after frame while the Z80     *)
(* runs a program.                                                         *)
(***************************************************************************)
\* programs as loops of <<cycles, byte for port 0xFF or -1>>: 19 cycles
\* divide a scanline, 23 do not, OUT (11 cycles) pays the 48 of the delay
ExecPrograms ==
    [p19 |-> <<<<19, -1>>>>, p23 |-> <<<<23, -1>>>>,
     out7 |-> <<<<11, 159>>, <<7, -1>>>>, out |-> <<<<11, 159>>>>,
     one |-> <<<<1, -1>>, <<11, 224>>>>]

\* the region and the program of a run
ExecSetups ==
    {<<0, "p19">>, <<0, "out7">>, <<0, "one">>,
     <<1, "p23">>, <<1, "out7">>, <<1, "out">>}

InitExec ==
    /\ \E su \in ExecSetups :
           /\ emu = jcv_set_region(loadFileAtPath(Cart8K, 0), su[1])
           /\ run = [RunIdle EXCEPT !.prog = ExecPrograms[su[2]]]
    /\ call = Call("set_region", 0, 0)
    /\ ret = 0
    /\ snap = NULL
    /\ nops = 0
    /\ twin = NULL
    /\ twinret = 0
    /\ phase = "single"
    /\ lines = 0

ExecFrame == run.frames < MaxFrames /\ ExecBegin

NextExec == ExecFrame \/ ExecInstr \/ ExecLine \/ ExecEnd

SpecExec == InitExec /\ [][NextExec]_vars

\* jcv_exec is one call: once begun, its loops go on.  This is the weak
\* fairness of ExecStep, WF_vars(ExecStep), written out: ExecStep is enabled
\* exactly where jcv_exec is running, and each of its steps changes run.
ExecStep == ExecInstr \/ ExecLine \/ ExecEnd

ExecFair == []<>(run.pc = "idle") \/ []<><<ExecStep>>_vars

SpecExecFair == SpecExec /\ ExecFair

(***************************************************************************)
(* Sound chips: each chip is programmed through its ports and then clocked *)
(* cycle after cycle.                                                      *)
(***************************************************************************)
\* bytes for port 0xFF: periodic noise at the three fixed rates and at the
\* rate of tone 2 (frequency 0 and 2), and white noise
SnSetups ==
    {<<224>>, <<225>>, <<227>>, <<194, 0, 227>>, <<228>>, <<231>>}

InitSn ==
    /\ \E w \in SnSetups :
           emu = IoWrAll(loadFileAtPath(Cart8K, 0), 255, w, 1)
    /\ call = Call("io_wr", 255, 0)
    /\ ret = 0
    /\ snap = NULL
    /\ nops = 0
    /\ twin = NULL
    /\ twinret = 0
    /\ phase = "single"
    /\ lines = 0
    /\ run = RunIdle

SnExec == lines < MaxSnExecs /\ PsgExec

SpecSn == InitSn /\ [][SnExec]_vars

\* pairs (register, value) for ports 0x50 and 0x51
RECURSIVE SgmWrAll(_, _, _)
SgmWrAll(m, regs, k) ==
    Force({ IF k > Len(regs) THEN b
            ELSE SgmWrAll(jcv_io_wr(jcv_io_wr(b, 80, regs[k][1]), 81, regs[k][2]),
                          regs, k + 1) : b \in {m} })

\* envelope shapes with their period registers (11 fine, 12 coarse, 13 shape)
EnvSetups ==
    {<<<<11, 1>>, <<13, shape>>>> : shape \in 0 .. 15}
    \cup {<<<<11, 2>>, <<13, 10>>>>, <<<<13, 10>>>>}

InitEnv ==
    /\ \E w \in EnvSetups :
           emu = SgmWrAll(loadFileAtPath(Cart8K, 0), w, 1)
    /\ call = Call("io_wr", 81, 0)
    /\ ret = 0
    /\ snap = NULL
    /\ nops = 0
    /\ twin = NULL
    /\ twinret = 0
    /\ phase = "single"
    /\ lines = 0
    /\ run = RunIdle

EnvExec == lines < MaxEnvExecs /\ SgmpsgExec

SpecEnv == InitEnv /\ [][EnvExec]_vars

\* envelope periods of 3, 0x8000 and 0xFFFF with shape 10
PeriodSetups ==
    {<<<<11, 3>>, <<13, 10>>>>,
     <<<<12, 128>>, <<13, 10>>>>,
     <<<<11, 255>>, <<12, 255>>, <<13, 10>>>>}

InitPeriod ==
    /\ \E w \in PeriodSetups :
           emu = SgmWrAll(loadFileAtPath(Cart8K, 0), w, 1)
    /\ call = Call("io_wr", 81, 10)
    /\ ret = 0
    /\ snap = NULL
    /\ nops = 0
    /\ twin = NULL
    /\ twinret = 0
    /\ phase = "single"
    /\ lines = 0
    /\ run = RunIdle

PeriodExec == lines < MaxPeriodExecs /\ SgmpsgExec

SpecPeriod == InitPeriod /\ [][PeriodExec]_vars

\* both chips programmed, then frames of jcv_exec: three SN76489 tones at
\* full volume with three AY channels held on at amplitude 15, one tone with
\* one channel, and the SN76489 alone at full volume
MixSetups ==
    {[sn |-> <<144, 176, 208>>,
      ay |-> <<<<7, 63>>, <<8, 15>>, <<9, 15>>, <<10, 15>>>>],
     [sn |-> <<144>>, ay |-> <<<<7, 63>>, <<8, 15>>>>],
     [sn |-> <<144, 176, 208, 240>>, ay |-> <<>>]}

InitMix ==
    /\ \E su \in MixSetups :
           emu = SgmWrAll(IoWrAll(loadFileAtPath(Cart8K, 0), 255, su.sn, 1),
                          su.ay, 1)
    /\ run = [RunIdle EXCEPT !.prog = ExecPrograms["p19"]]
    /\ call = Call("io_wr", 81, 15)
    /\ ret = 0
    /\ snap = NULL
    /\ nops = 0
    /\ twin = NULL
    /\ twinret = 0
    /\ phase = "single"
    /\ lines = 0

SpecMix == InitMix /\ [][NextExec]_vars

\* the AY driven through its two ports while it is clocked: a write of the
\* register index (13 and 11, and 29 with bits the port drops), a write of
\* the latched register, or a cycle, in any order
AyIndexes == {13, 11, 29}
AyData == {0, 10, 14, 255}

InitAy ==
    /\ emu = loadFileAtPath(Cart8K, 0)
    /\ call = Call("init", 0, 0)
    /\ ret = 0
    /\ snap = NULL
    /\ nops = 0
    /\ twin = NULL
    /\ twinret = 0
    /\ phase = "single"
    /\ lines = 0
    /\ run = RunIdle

AySetReg == nops < MaxAyOps /\ \E r \in AyIndexes : IoWr(80, r)
AyWr == nops < MaxAyOps /\ \E d \in AyData : IoWr(81, d)
AyExec == lines < MaxAyExecs /\ SgmpsgExec

NextAy == AySetReg \/ AyWr \/ AyExec

SpecAy == InitAy /\ [][NextAy]_vars

\* the VDP programmed through its ports and then rendered line by line
\* while the program goes on using the ports.  A setup is the bytes for
\* registers 0 and 1 (screen mode, sprite size and magnification) and the
\* byte for registers 2 to 6 (the table bases).  VRAM holds 0xFF in the
\* first and the last row of names and a sprite with pattern 0xFF.
VdpSetups ==
    {[r0 |-> 0, r1 |-> 195, rt |-> 255],
     [r0 |-> 255, r1 |-> 192, rt |-> 255],
     [r0 |-> 0, r1 |-> 208, rt |-> 255],
     [r0 |-> 0, r1 |-> 202, rt |-> 255]}

VdpBytes(n) == [k \in 1 .. n |-> 255]

VdpBoot(su) ==
    LET m == IoWrAll(loadFileAtPath(Cart8K, 0), 191,
                     <<su.r0, 128, su.r1, 129, su.rt, 130, su.rt, 131,
                       su.rt, 132, su.rt, 133, su.rt, 134>>, 1)
    IN  VramFill(VramFill(VramFill(m, m.vdp.tbl_pname, VdpBytes(32)),
                          m.vdp.tbl_pname + 736, VdpBytes(32)),
                 m.vdp.tbl_sattr, <<0, 0, 255, 1>>)

\* what the program does with the two ports while the frame is rendered,
\* as <<port, byte to write or -1 for a read>>: a read of the status and
\* a write of register 2, a write at the last address, and a read at the
\* last address
VdpPrograms ==
    {<<<<191, -1>>, <<191, 0>>, <<191, 130>>>>,
     <<<<191, 255>>, <<191, 255>>, <<190, 255>>>>,
     <<<<191, 255>>, <<191, 63>>, <<190, -1>>>>}

InitVdp ==
    /\ \E su \in VdpSetups : emu = VdpBoot(su)
    /\ \E prog \in VdpPrograms : run = [RunIdle EXCEPT !.prog = prog]
    /\ call = Call("io_wr", 190, 1)
    /\ ret = 0
    /\ snap = NULL
    /\ nops = 0
    /\ twin = NULL
    /\ twinret = 0
    /\ phase = "single"
    /\ lines = 0

\* the renderer's indexes do not depend on what it finds left of the screen
VdpLineExec ==
    /\ lines < MaxVdpLines
    /\ emu' = jcv_vdp_exec(emu, FALSE)
    /\ ret' = 0
    /\ call' = Call("vdp_exec", emu.vdp.line, 0)
    /\ lines' = lines + 1
    /\ UNCHANGED <<snap, nops, twin, twinret, phase, run>>

\* the next port access of the program, at any line
VdpPort ==
    /\ run.ip <= Len(run.prog)
    /\ LET op == run.prog[run.ip]
           r == jcv_io_rd(emu, op[1], 0)
       IN  IF op[2] >= 0
           THEN /\ emu' = jcv_io_wr(emu, op[1], op[2])
                /\ ret' = 0
                /\ call' = Call("io_wr", op[1], op[2])
           ELSE /\ emu' = r.m
                /\ ret' = r.ret
                /\ call' = Call("io_rd", op[1], 0)
    /\ nops' = nops + 1
    /\ run' = [run EXCEPT !.ip = @ + 1]
    /\ UNCHANGED <<snap, twin, twinret, phase, lines>>

NextVdp == VdpLineExec \/ VdpPort

SpecVdp == InitVdp /\ [][NextVdp]_vars

\* the noise generator of the AY as jcv_sgmpsg_init leaves it
InitNoise ==
    /\ emu = loadFileAtPath(Cart8K, 0)
    /\ call = Call("init", 0, 0)
    /\ ret = 0
    /\ snap = NULL
    /\ nops = 0
    /\ twin = NULL
    /\ twinret = 0
    /\ phase = "single"
    /\ lines = 0
    /\ run = RunIdle

NoiseExec == lines < MaxNoiseExecs /\ SgmpsgExec

SpecNoise == InitNoise /\ [][NoiseExec]_vars

(***************************************************************************)
(* Properties of the save states (SpecState, SpecTwin).                    *)
(***************************************************************************)
SaveStep(c, r) == c.op \in {"state_save", "serialize"} /\ r = 1
LoadStep(c) == c.op \in {"state_load", "deserialize"}

\* C1: whenever a save succeeds, loading the blob it produced straight away
\* pops exactly the bytes pushed and leaves every field of the emulator as
\* it was before the save; the machine after (save; load) is the machine
\* after the save, buffer and position included, so that whatever is
\* executed next, and every snapshot taken after it, is the same on both.
C1_SaveLoadRoundTrip ==
    [][SaveStep(call', ret') =>
          LET back == jcv_state_load_raw(emu', snap', 0)
          IN  /\ EmuState(back) = EmuState(emu)
              /\ back.pos = emu'.pos
              /\ back = emu'
      ]_vars

\* a save taken after PSG, VDP or SGM traffic has changed the machine
C1_Witness ==
    /\ SaveStep(call, ret)
    /\ snap # NULL
    /\ emu.pos > 0
    /\ emu.psg.clatch # 0

\* C2 (as claimed): once both machines have loaded the same snapshot, every
\* operation applied to both returns the same value on both.
C2_TwinsAgree == phase = "lock" => ret = twinret

\* C3 (as claimed): after a save, the number of bytes serialised equals
\* jcv_state_size().
C3_SerialisedIsStateSize == SaveStep(call, ret) => emu.pos = jcv_state_size

\* C4 (as claimed): a load of a blob whose length is not jcv_state_size()
\* returns failure and leaves the emulator state as it was, through the file
\* load and through the frontend's deserialize.
C4_WrongSizeRejected ==
    [][(LoadStep(call') /\ call'.a # jcv_state_size) =>
          (ret' = 0 /\ EmuState(emu') = EmuState(emu))]_vars

(***************************************************************************)
(* Properties of the loaders (SpecLoad).                                   *)
(***************************************************************************)
\* C5 (as claimed): a BIOS load given a size other than 8192 returns failure
\* and leaves the BIOS mapping as it was, through both entry points.
C5_BiosSizeChecked ==
    [][(call'.op \in {"bios_load_file", "bios_load"} /\ call'.a # SIZE_CVBIOS) =>
          (ret' = 0 /\ emu'.cvbios = emu.cvbios)]_vars

IsMagic(w) == w \in {43605, 21930}
\* the big-endian word at offset 0 and the little-endian word at size-0x4000
HeadWord(img) == 256 * ImageByte(img, 0, 0) + ImageByte(img, 1, 0)
TopWord(img) ==
    ImageByte(img, img.size - 16384, 0) + 256 * ImageByte(img, img.size - 16383, 0)
\* the number of 8 KB pages of an image, the last one possibly short
Pages8K(img) == (img.size + 8191) \div 8192

\* what a successful load leaves mapped
RomMapped(m, img) ==
    IF img.size > 32768
    THEN /\ m.megacart = 1
         /\ m.rompage[0] = img.size - 16384
         /\ m.rompage[1] = img.size - 8192
         /\ m.rompage[2] = 0
         /\ m.rompage[3] = 8192
    ELSE \A i \in 0 .. (Pages8K(img) - 1) : m.rompage[i] = i * 8192

\* C6 (as claimed): the load succeeds exactly when the magic is at offset 0
\* or, for an image larger than 32 KB, at size-0x4000; a successful load
\* maps the pages and a failed one is an image with no magic.
C6_MagicAtEitherPlace ==
    [][call'.op = "rom_load" =>
          LET img == call'.d
          IN  /\ ret' = 1 <=> (IsMagic(HeadWord(img))
                               \/ (img.size > 32768 /\ IsMagic(TopWord(img))))
              /\ ret' = 1 => RomMapped(emu', img)
      ]_vars

\* C6 (amended): the load succeeds exactly when an image of at most 32 KB
\* has the magic at offset 0, or a larger image has it at size-0x4000; a
\* larger image that succeeds is marked Mega Cart with rompage =
\* (size-0x4000, size-0x2000, 0, 0x2000), any other gets rompage[i] =
\* i*0x2000 for each of its 8 KB pages.
C6_MagicWhereSizeSays ==
    [][call'.op = "rom_load" =>
          LET img == call'.d
          IN  /\ ret' = 1 <=> (IF img.size > 32768 THEN IsMagic(TopWord(img))
                               ELSE IsMagic(HeadWord(img)))
              /\ ret' = 1 => RomMapped(emu', img)
              /\ ret' \in {0, 1}
      ]_vars

\* a 64 KB image with the magic at offset 0 only has been refused
C6_Witness ==
    /\ call.op = "rom_load"
    /\ call.d = Head64K
    /\ IsMagic(HeadWord(Head64K))
    /\ ret = 0

(***************************************************************************)
(* Properties of the memory map (SpecMem).                                 *)
(***************************************************************************)
\* the byte the cartridge window shows at address a through the mapping of m
CartByte(m, a) ==
    IF a >= m.romsize + 32768 THEN 255
    ELSE ImageByte(m.romdata, m.rompage[(a - 32768) \div 8192] + (a % 8192), 0)

\* C7: every read returns the byte of the first rule that matches: SGM RAM
\* below 0x2000 when sgm_lower, else BIOS below 0x2000, else SGM RAM below
\* 0x8000 when sgm_upper, else 0xFF below 0x6000, else system RAM at
\* addr & 0x3FF below 0x8000, else cartridge ROM through rompage (0xFF past
\* the ROM's end); with both SGM enables set every read below 0x8000 comes
\* from SGM RAM; and a read below 0x8000 changes nothing.
C7_ReadRules ==
    [][call'.op = "mem_rd" =>
          LET a == call'.a
              lower == emu.sgm_lower # 0
              upper == emu.sgm_upper # 0
          IN  /\ (a < 8192 /\ lower) => ret' = ArrAt(emu.cvsys.sgmram, a)
              /\ (a < 8192 /\ ~lower) => ret' = BiosByte(emu.cvbios, a, 0)
              /\ (a >= 8192 /\ a < 32768 /\ upper) => ret' = ArrAt(emu.cvsys.sgmram, a)
              /\ (a >= 8192 /\ a < 24576 /\ ~upper) => ret' = 255
              /\ (a >= 24576 /\ a < 32768 /\ ~upper)
                     => ret' = ArrAt(emu.cvsys.ram, a % 1024)
              /\ a >= 32768 => ret' = CartByte(emu', a)
              /\ (a < 32768 /\ lower /\ upper) => ret' = ArrAt(emu.cvsys.sgmram, a)
              /\ a < 32768 => emu' = emu
      ]_vars

\* with both SGM enables set, a read of address 0 returned SGM RAM's byte
\* and not the BIOS's
C7_Witness ==
    /\ call.op = "mem_rd"
    /\ call.a = 0
    /\ emu.sgm_lower # 0
    /\ emu.sgm_upper # 0
    /\ ret = ArrAt(emu.cvsys.sgmram, 0)
    /\ ret # BiosByte(emu.cvbios, 0, 0)

\* the arrays a1 and a2 hold the same byte at every index but i
ArrSameBut(a1, a2, i) ==
    /\ a1.runs = a2.runs
    /\ \A x \in ((DOMAIN a1.ov) \cup (DOMAIN a2.ov)) \ {i} : ArrAt(a1, x) = ArrAt(a2, x)

\* the multiples of 0x400 that keep an address of 0x6000-0x7FFF in range
MirrorOffsets == {1024 * j : j \in 0 .. 7}

\* C8: with both SGM enables off, after a write of b to an address a of
\* 0x6000-0x7FFF a read of a ^ k returns b for every multiple k of 0x400
\* that keeps the address in range, and no other byte of system RAM has
\* changed.
C8_RamMirror ==
    [][(call'.op = "mem_wr" /\ emu.sgm_lower = 0 /\ emu.sgm_upper = 0
        /\ call'.a >= 24576 /\ call'.a < 32768) =>
          /\ \A k \in MirrorOffsets :
                /\ BitXor(call'.a, k) >= 24576 /\ BitXor(call'.a, k) < 32768
                /\ jcv_mem_rd(emu', BitXor(call'.a, k), 0).ret = call'.d
          /\ ArrSameBut(emu'.cvsys.ram, emu.cvsys.ram, call'.a % 1024)
      ]_vars

\* a write to 0x67FF has landed in the last cell of the 1 KB of system RAM
C8_Witness ==
    /\ call.op = "mem_wr"
    /\ call.a = 26623
    /\ emu.sgm_lower = 0 /\ emu.sgm_upper = 0
    /\ ArrAt(emu.cvsys.ram, 1023) = call.d
    /\ jcv_mem_rd(emu, 32767, 0).ret = call.d

\* C9: a write to the cartridge window (0xFFC0-0xFFFF of a Mega Cart
\* included), below 0x2000 while sgm_lower is off, or to 0x2000-0x5FFF
\* while sgm_upper is off changes nothing: RAM, SGM RAM, rompage and the SGM
\* enables are as before.
C9_SilentWrites ==
    [][(call'.op = "mem_wr"
        /\ \/ call'.a >= 32768
           \/ call'.a < 8192 /\ emu.sgm_lower = 0
           \/ call'.a >= 8192 /\ call'.a < 24576 /\ emu.sgm_upper = 0) =>
          /\ emu'.cvsys = emu.cvsys
          /\ emu'.rompage = emu.rompage
          /\ emu'.sgm_lower = emu.sgm_lower /\ emu'.sgm_upper = emu.sgm_upper
          /\ emu' = emu
      ]_vars

\* a write to 0xFFC1 on a Mega Cart whose bank had been switched
C9_Witness ==
    /\ call.op = "mem_wr"
    /\ call.a = 65473
    /\ emu.megacart # 0
    /\ emu.rompage[2] = 2 * SIZE_16K

\* the number of 16 KB banks of the cartridge of m
Banks16K(m) == m.romsize \div 16384

\* C10: on a Mega Cart a read of a >= 0xFFC0 sets rompage[2] to
\* (a & (N-1)) << 14 and rompage[3] to rompage[2] + 0x2000 and returns the
\* byte of the bank just selected; a read of 0xC000-0xFFBF returns the byte
\* of the bank rompage[2] selects; and nothing but such a bank-select read
\* changes rompage.
C10_BankSelect ==
    [][LET a == call'.a
           select == call'.op = "mem_rd" /\ emu.megacart # 0 /\ a >= 65472
           bank == Shl(BitAnd(a, Banks16K(emu) - 1), 14)
       IN  /\ select =>
                /\ emu'.rompage[2] = bank
                /\ emu'.rompage[3] = bank + 8192
                /\ ret' = ImageByte(emu.romdata, bank + (a - 49152), 0)
           /\ (call'.op = "mem_rd" /\ emu.megacart # 0 /\ a >= 49152 /\ a < 65472) =>
                ret' = ImageByte(emu.romdata, emu.rompage[2] + (a - 49152), 0)
           /\ ~select => emu'.rompage = emu.rompage
      ]_vars

\* after read(0xFFC2) on the 128 KB cartridge, a read of 0xC000 shows the
\* first byte of bank 2
C10_Witness ==
    /\ call.op = "mem_rd"
    /\ call.a = 49152
    /\ emu.romdata = Mega128K
    /\ emu.rompage[2] = 2 * SIZE_16K
    /\ emu.rompage[3] = 2 * SIZE_16K + SIZE_8K
    /\ ret = ImageByte(Mega128K, 2 * SIZE_16K, 0)

(***************************************************************************)
(* Properties of the Mega Cart window and of the fixed pages (SpecMem,     *)
(* SpecLoad).                                                              *)
(***************************************************************************)
IsMega(m) == m.romdata # NULL /\ m.romsize > SIZE_32K /\ IsMagic(TopWord(m.romdata))

\* C11: on a Mega Cart, in every state reached from the load by memory
\* reads, memory writes, port writes and resets, rompage[0] is
\* romsize - 0x4000 and rompage[1] is romsize - 0x2000, and a read of
\* 0x8000..0xBFFF returns the byte of the top 16 KB of the image, whatever
\* bank has been selected.
C11_TopWindowFixed ==
    (Running(emu) /\ IsMega(emu)) =>
        /\ emu.rompage[0] = emu.romsize - SIZE_16K
        /\ emu.rompage[1] = emu.romsize - SIZE_8K
        /\ \A a \in {32768, 32769, 40960, 49151} :
              jcv_mem_rd(emu, a, 0).ret
                  = ImageByte(emu.romdata, emu.romsize - SIZE_16K + (a - 32768), 0)

C11_Witness ==
    /\ Running(emu) /\ IsMega(emu)
    /\ call.op = "mem_rd" /\ call.a = 32768
    /\ emu.rompage[2] = 2 * SIZE_16K
    /\ ret = ImageByte(emu.romdata, emu.romsize - SIZE_16K, 0)


\* a ROM of at most 32 KB that passed the header check is the loaded one
IsPlain(m) ==
    m.romdata # NULL /\ m.romsize <= SIZE_32K /\ m.romsize = m.romdata.size
        /\ IsMagic(HeadWord(m.romdata))

\* C12: once a ROM of at most 32 KB is loaded, its pages are at 0, 8K, 16K
\* and 24K and no memory read (reads of 0xFFC0-0xFFFF included) or write
\* changes rompage[0..3], whatever cartridge was loaded before it.
C12_PlainPagesFixed ==
    [][(Running(emu) /\ IsPlain(emu) /\ call'.op \in {"mem_rd", "mem_wr"}) =>
          /\ emu'.rompage = emu.rompage
          /\ \A i \in 0..(Pages8K(emu.romdata) - 1) : emu'.rompage[i] = i * SIZE_8K
      ]_vars


(***************************************************************************)
(* Properties of the I/O ports (SpecIo).                                   *)
(***************************************************************************)
IsCtrlRd(c) == c.op = "io_rd" /\ BitAnd(c.a, 224) = 224

\* C13: a read of a controller port (band 0xE0) latches the callback's value
\* v in ctrl[(port >> 1) & 1] and returns the complement of the low byte of
\* v when the last strobe write went to the 0x80 band (cseg = 0), of the
\* high byte when it went to the 0xC0 band (cseg = 1); a strobe write sets
\* cseg by its band alone, whatever its data, and no other port or memory
\* operation changes cseg.
C13_ControllerRead ==
    [][/\ IsCtrlRd(call') =>
            LET p == (call'.a \div 2) % 2
                v == call'.d
            IN  /\ emu'.cvsys.ctrl[p] = v
                /\ emu'.cvsys.ctrl[1 - p] = emu.cvsys.ctrl[1 - p]
                /\ emu.cvsys.cseg = 0 => ret' = 255 - (v % 256)
                /\ emu.cvsys.cseg = 1 => ret' = 255 - (v \div 256)
                /\ emu.cvsys.cseg \in {0, 1}
       /\ (call'.op = "io_wr" /\ BitAnd(call'.a, 224) = 128) => emu'.cvsys.cseg = 0
       /\ (call'.op = "io_wr" /\ BitAnd(call'.a, 224) = 192) => emu'.cvsys.cseg = 1
       /\ (/\ call'.op \in {"io_rd", "io_wr", "mem_rd", "mem_wr", "z80_exec"}
           /\ ~(call'.op = "io_wr" /\ BitAnd(call'.a, 224) \in {128, 192}))
             => emu'.cvsys.cseg = emu.cvsys.cseg
      ]_vars

\* v = 0x808C read on port 0xFC after a strobe to the 0xC0 band: the
\* complement of the high byte, 0x7F (0x73 with cseg = 0)
C13_Witness ==
    /\ call = Call("io_rd", 252, 32908)
    /\ emu.cvsys.cseg = 1 /\ ret = 127
    /\ emu.cvsys.ctrl[0] = 32908


\* C14: a write to port 0x53 sets sgm_upper to 1 whatever its data; once
\* set it stays 1 through every port read, port write (0x53 and 0x7F
\* included), memory access and instruction; a reset clears it.
C14_UpperOneWay ==
    [][/\ (call'.op = "io_wr" /\ call'.a = 83) => emu'.sgm_upper = 1
       /\ (emu.sgm_upper = 1 /\ call'.op # "reset") => emu'.sgm_upper = 1
       /\ call'.op = "reset" => emu'.sgm_upper = 0
       /\ emu.sgm_upper \in {0, 1}
      ]_vars

\* the enable survives a later write to port 0x7F with bit 1 set
C14_Witness ==
    /\ call = Call("io_wr", 127, 255)
    /\ emu.sgm_upper = 1 /\ emu.sgm_lower = 0
    /\ nops = 2

\* C15: a write of d to port 0x7F sets sgm_lower to (~d) & 2; from then on
\* reads of 0x0000-0x1FFF return SGM RAM and writes there store into it iff
\* bit 1 of d was clear, otherwise reads return the BIOS byte and writes do
\* nothing; right after init and io_write(0x7F, 0xFD), read(0) is 0xFF.
C15_LowerEnable ==
    [][/\ (call'.op = "io_wr" /\ call'.a = 127) =>
             /\ emu'.sgm_lower = (IF (call'.d \div 2) % 2 = 0 THEN 2 ELSE 0)
             /\ (call.op \in {"init", "reset"} /\ call'.d = 253)
                   => jcv_mem_rd(emu', 0, 0).ret = 255
       /\ (call'.op = "mem_rd" /\ call'.a < SIZE_8K) =>
             ret' = IF emu.sgm_lower # 0 THEN ArrAt(emu.cvsys.sgmram, call'.a)
                    ELSE BiosByte(emu.cvbios, call'.a, 0)
       /\ (call'.op = "mem_wr" /\ call'.a < SIZE_8K) =>
             emu'.cvsys.sgmram =
                 IF emu.sgm_lower # 0
                 THEN ArrPut(emu.cvsys.sgmram, call'.a, call'.d)
                 ELSE emu.cvsys.sgmram
       /\ (call'.op \in {"io_rd", "mem_rd", "mem_wr", "z80_exec"}
              \/ (call'.op = "io_wr" /\ call'.a # 127))
             => emu'.sgm_lower = emu.sgm_lower
      ]_vars

\* init, io_write(0x7F, 0xFD), then read(0x0000) = SGM RAM's 0xFF
C15_Witness ==
    /\ call = Call("mem_rd", 0, 0)
    /\ emu.sgm_lower = 2 /\ ret = 255 /\ nops = 2
    /\ BiosByte(emu.cvbios, 0, 0) # 255


IsPsgWr(c) == c.op = "io_wr" /\ BitAnd(c.a, 224) = 224

\* C16: every write to a port of the 0xE0 band adds exactly 48 cycles to
\* the pending delay and no other operation adds any; jcv_z80_exec reports
\* the interpreter's cycles plus the pending delay, i.e. plus 48 for each
\* such write since the previous jcv_z80_exec, and leaves the delay at 0.
C16_PsgWriteDelay ==
    [][/\ IsPsgWr(call') => emu'.delaycycs = emu.delaycycs + 48
       /\ call'.op = "z80_exec" =>
             /\ ret' = call'.a + emu.delaycycs
             /\ emu'.delaycycs = 0
       /\ (~IsPsgWr(call') /\ call'.op # "z80_exec") =>
             emu'.delaycycs = emu.delaycycs
       /\ emu.delaycycs \in {48 * k : k \in 0..nops}
      ]_vars

\* an instruction of 4 cycles that wrote twice to the PSG reports 100
C16_Witness ==
    /\ call = Call("z80_exec", 4, 0)
    /\ nops = 3
    /\ ret = 4 + 2 * 48
    /\ emu.delaycycs = 0

IsVdpPort(c) == c.op \in {"io_rd", "io_wr"} /\ BitAnd(c.a, 224) = 160
IsVdpCtrlWr(c) == c.op = "io_wr" /\ IsVdpPort(c) /\ c.a % 2 = 1

\* C17: after a VDP status read, a VRAM data read or a VRAM data write the
\* write latch is 0, so the next control write is the first byte of a new
\* pair (it only stores the low address byte and changes no register), also
\* when a first byte had been written before the access; the latch toggles
\* on control writes and no other operation changes it.
C17_LatchCleared ==
    [][/\ (IsVdpPort(call') /\ ~IsVdpCtrlWr(call')) => emu'.vdp.wlatch = 0
       /\ IsVdpCtrlWr(call') =>
             /\ emu'.vdp.wlatch = 1 - emu.vdp.wlatch
             /\ emu.vdp.wlatch = 0 =>
                   /\ emu'.vdp.ctrl = emu.vdp.ctrl
                   /\ emu'.vdp.vram = emu.vdp.vram
                   /\ emu'.vdp.dlatch = call'.d
                   /\ emu'.vdp.addr % 256 = call'.d
                   /\ emu'.vdp.addr \div 256 = (emu.vdp.addr \div 256) % 64
       /\ (~IsVdpPort(call') /\ call'.op # "reset") =>
             emu'.vdp.wlatch = emu.vdp.wlatch
       /\ emu.vdp.wlatch \in {0, 1}
      ]_vars

\* the first byte 0x20 of a pair was written, then a status read cut in
C17_Witness ==
    /\ call = Call("io_rd", 191, 32908)
    /\ nops = 2
    /\ emu.vdp.dlatch = 32 /\ emu.vdp.addr = 32
    /\ emu.vdp.wlatch = 0


(***************************************************************************)
(* Properties of the vertical blanking interrupt (SpecFrame).              *)
(***************************************************************************)
IntSet(v) == (v.stat \div 128) % 2 = 1
GintSet(v) == (v.ctrl[1] \div 32) % 2 = 1

\* C18: the jcv_vdp_exec call that takes line from 191 to 192 sets the INT
\* bit of the status register whatever the registers hold, and raises one
\* NMI iff GINT is set and INT was clear before the call; every other
\* jcv_vdp_exec call leaves INT as it was and raises no NMI.
C18_VBlankInterrupt ==
    [][call'.op = "vdp_exec" =>
          IF emu.vdp.line = CV_VDP_HEIGHT - 1
          THEN /\ emu'.vdp.line = CV_VDP_HEIGHT
               /\ IntSet(emu'.vdp)
               /\ emu'.nmis = emu.nmis
                     + (IF GintSet(emu.vdp) /\ ~IntSet(emu.vdp) THEN 1 ELSE 0)
               /\ emu'.nmis > emu.nmis => emu'.z80ctx.nmi_pending = 1
          ELSE /\ emu'.vdp.line # CV_VDP_HEIGHT
               /\ IntSet(emu'.vdp) = IntSet(emu.vdp)
               /\ emu'.nmis = emu.nmis
               /\ emu'.z80ctx = emu.z80ctx
      ]_vars

\* the second VBLANK, INT never read: still the one NMI of the first
C18_Witness ==
    /\ call.op = "vdp_exec" /\ emu.vdp.line = CV_VDP_HEIGHT
    /\ lines = CV_VDP_HEIGHT + emu.numscanlines
    /\ nops = 0 /\ GintSet(emu.vdp) /\ IntSet(emu.vdp)
    /\ emu.nmis = 1


\* GINT set since line 0 and nothing but scanlines and at most one status
\* read since (a control write would have left the write latch set)
OnlyStatRd(k) == GintSet(emu.vdp) /\ nops = k /\ emu.vdp.wlatch = 0

\* C19 as stated: with GINT set, line 0 and INT clear, the first 192
\* jcv_vdp_exec calls raise exactly one NMI, and after a status read has
\* cleared INT the next 192 calls raise a second one.
C19_SecondNmiWithin192 ==
    /\ (OnlyStatRd(0) /\ lines = CV_VDP_HEIGHT) => emu.nmis = 1
    /\ (OnlyStatRd(1) /\ call.op = "vdp_exec" /\ lines = 2 * CV_VDP_HEIGHT)
          => emu.nmis = 2

\* C19: with GINT set, line 0 and INT clear, the first 192 jcv_vdp_exec
\* calls raise exactly one NMI, raised by the last of them; after a status
\* read has cleared INT no NMI is raised until the call that next takes
\* line from 191 to 192, which is numscanlines (262 NTSC, 313 PAL) calls
\* after the first and raises the second NMI.
C19_SecondNmiNextFrame ==
    /\ (OnlyStatRd(0) /\ lines < CV_VDP_HEIGHT) => emu.nmis = 0
    /\ (OnlyStatRd(0) /\ lines = CV_VDP_HEIGHT) => emu.nmis = 1
    /\ (OnlyStatRd(1) /\ call.op = "vdp_exec"
           /\ lines < CV_VDP_HEIGHT + emu.numscanlines) => emu.nmis = 1
    /\ (OnlyStatRd(1) /\ call.op = "vdp_exec"
           /\ lines = CV_VDP_HEIGHT + emu.numscanlines) => emu.nmis = 2

\* the second NMI, one NTSC frame after the first
C19_Witness ==
    /\ OnlyStatRd(1) /\ call.op = "vdp_exec"
    /\ emu.numscanlines = CV_VDP_SCANLINES
    /\ lines = CV_VDP_HEIGHT + CV_VDP_SCANLINES
    /\ emu.vdp.line = CV_VDP_HEIGHT
    /\ emu.nmis = 2

\* C20: a register write raises an NMI iff it writes register 1, the value
\* written has GINT (0x20), GINT was clear before the write and the INT bit
\* of the status register is set; no other access to the VDP's ports
\* raises one.
C20_GintEdgeNmi ==
    [][call'.op \in {"io_rd", "io_wr"} =>
          LET regwr == /\ IsVdpCtrlWr(call') /\ emu.vdp.wlatch = 1
                       /\ call'.d \div 64 = 2
              rnum == call'.d % 8
              val == emu.vdp.dlatch
          IN  emu'.nmis = emu.nmis +
                  (IF /\ regwr /\ rnum = 1
                      /\ (val \div 32) % 2 = 1
                      /\ ~GintSet(emu.vdp)
                      /\ IntSet(emu.vdp)
                   THEN 1 ELSE 0)
      ]_vars

\* GINT enabled during vertical blanking with INT pending: the frame began
\* with GINT clear and rendering off on a PAL machine, so no NMI came from
\* the VBLANK itself
C20_Witness ==
    /\ call = Call("io_wr", 191, 129)
    /\ emu.numscanlines = CV_VDP_SCANLINES_PAL
    /\ lines = CV_VDP_HEIGHT /\ nops = 2
    /\ emu.vdp.stat = 128 /\ emu.vdp.ctrl[1] = 32
    /\ emu.nmis = 1


(***************************************************************************)
(* Properties of the sprite renderer (SpecSpr).                            *)
(***************************************************************************)
\* the sprite attribute table read as the datasheet describes it
SatByte(v, i, k) == ArrAt(v.vram, v.tbl_sattr + 4 * i + k)
SprHeight(v) == (IF (v.ctrl[1] \div 2) % 2 = 1 THEN 16 ELSE 8) * (1 + (v.ctrl[1] % 2))
SprTop(v, i) == (IF SatByte(v, i, 0) > 224 THEN SatByte(v, i, 0) - 256
                 ELSE SatByte(v, i, 0)) + 1
SprLeft(v, i) == SatByte(v, i, 1) - (IF SatByte(v, i, 3) >= 128 THEN 32 ELSE 0)
\* the entries before the first Y = 208
SprListed(v) == {i \in 0..31 : \A j \in 0..i : SatByte(v, j, 0) # 208}
\* the listed sprites with a row on the line
SprOnLine(v, line) ==
    {i \in SprListed(v) : SprTop(v, i) <= line /\ line < SprTop(v, i) + SprHeight(v)}
\* the first four of them
SprShown(v, line) ==
    {i \in SprOnLine(v, line) : Cardinality({j \in SprOnLine(v, line) : j < i}) < 4}
\* the on-screen columns where sprite i has a pattern bit set on the line
SprBits(v, i, line) ==
    LET mag == v.ctrl[1] % 2
        big == (v.ctrl[1] \div 2) % 2 = 1
        name == IF big THEN 4 * (SatByte(v, i, 2) \div 4) ELSE SatByte(v, i, 2)
        row == (line - SprTop(v, i)) \div (1 + mag)
        at == v.tbl_spgen + 8 * name + row
    IN  {c \in 0..(CV_VDP_WIDTH - 1) :
            \E p \in 0..(SprHeight(v) - 1) :
               /\ c = SprLeft(v, i) + p
               /\ LET q == p \div (1 + mag)
                      byte == ArrAt(v.vram, IF q >= 8 THEN at + 16 ELSE at)
                  IN  (byte \div Pow2(7 - (q % 8))) % 2 = 1}
SprActive(v) ==
    (v.ctrl[1] \div 64) % 2 = 1 /\ (v.ctrl[1] \div 16) % 2 = 0 /\ v.line < CV_VDP_HEIGHT
FifthSet(v) == (v.stat \div 64) % 2 = 1
CoincSet(v) == (v.stat \div 32) % 2 = 1

\* C21 as stated: a rendered line that five or more listed sprites cover
\* sets the 5S bit, and once a status read has cleared the bit it is not
\* set again before the next frame.
C21_FifthOncePerFrame ==
    [][(call'.op = "vdp_exec" /\ SprActive(emu.vdp)) =>
          /\ Cardinality(SprOnLine(emu.vdp, emu.vdp.line)) >= 5 => FifthSet(emu'.vdp)
          /\ (/\ lines = emu.vdp.line
              /\ ~FifthSet(emu.vdp)
              /\ \E l \in 0..(emu.vdp.line - 1) : Cardinality(SprOnLine(emu.vdp, l)) >= 5)
                => ~FifthSet(emu'.vdp)
      ]_vars

\* C21: every line rendered with the display enabled in a non-text mode
\* that five or more listed sprites cover sets the 5S bit and draws the
\* first four of them only; a line with fewer, or one not rendered so,
\* leaves the bit as it was.  The bit is set by each such line: after a
\* status read has cleared it, the next such line of the same frame sets
\* it again.
C21_FifthEveryLine ==
    [][call'.op = "vdp_exec" =>
          LET v == emu.vdp
              five == SprActive(v) /\ Cardinality(SprOnLine(v, v.line)) >= 5
          IN  /\ FifthSet(emu'.vdp) = (FifthSet(v) \/ five)
              /\ five =>
                    SprWalk(v, [i |-> 0, numspr |-> 0, stat |-> v.stat,
                                cbuf |-> {}, used |-> {}, reads |-> {}, done |-> FALSE], FALSE).cbuf
                       = UNION {SprBits(v, i, v.line) : i \in SprShown(v, v.line)}
      ]_vars

\* the bit was set by an earlier line of this frame, a status read cleared
\* it, and the line just rendered has set it again
C21_Witness ==
    /\ call.op = "vdp_exec" /\ call.a >= 2
    /\ lines = emu.vdp.line /\ nops = 1
    /\ Cardinality(SprOnLine(emu.vdp, call.a)) >= 5
    /\ FifthSet(emu.vdp)
    /\ emu.vdp.stat % 32 = 4

\* C22: after a line is rendered, the C bit is set if two of the first
\* four sprites on it have set pattern bits on the same on-screen pixel,
\* whatever their colour bytes, colour 0 included.
C22_CoincidenceAnyColour ==
    [][(call'.op = "vdp_exec" /\ SprActive(emu.vdp)) =>
          LET v == emu.vdp
              shown == SprShown(v, v.line)
          IN  (\E i, j \in shown :
                  i # j /\ SprBits(v, i, v.line) \cap SprBits(v, j, v.line) # {})
                => CoincSet(emu'.vdp)
      ]_vars



(***************************************************************************)
(* Properties of SGM RAM at power-on and of the scan line (SpecIo,         *)
(* SpecRegion).                                                            *)
(***************************************************************************)
\* C27: after init and after every reset every byte of the 32 KB of SGM RAM
\* holds 0xFF, so that an SGM-mapped address reads 0xFF until it is
\* written.
C27_SgmRamFilled ==
    call.op \in {"init", "reset"} =>
        /\ ArrLen(emu.cvsys.sgmram) = SIZE_32K
        /\ \A a \in {0, 8191, 8192, 24575, 24576, 32767} :
              ArrAt(emu.cvsys.sgmram, a) = 255

\* C29: in every state reached through init, reset, jcv_set_region at any
\* line and jcv_vdp_exec, the scan line is below numscanlines of the
\* selected region, and a jcv_vdp_exec call leaves line 0 exactly when the
\* line it counted to is numscanlines.
C29_LineInFrame ==
    [][/\ emu.vdp.line < emu.numscanlines
       /\ emu'.vdp.line < emu'.numscanlines
       /\ call'.op = "vdp_exec" =>
             emu'.vdp.line = (IF emu.vdp.line + 1 = emu.numscanlines THEN 0
                              ELSE emu.vdp.line + 1)
      ]_vars

(***************************************************************************)
(* Properties of the sound chips (SpecSn, SpecNoise, SpecEnv).             *)
(***************************************************************************)
NoiseFlip(psg) == BitAnd(psg.freqff, 8) # 0
Rotate15(l) == BitOr(Shr(l, 1), Shl(BitAnd(l, 1), LFSRSHIFT))

\* C23: in periodic-noise mode every reload of the noise counter flips the
\* noise flip-flop and every second reload, the one that sets it, shifts the
\* register by rotating its 15 bits; counted from the seed 1<<14 the
\* register, and with it the output bit, is back at the seed after every 15
\* shifts and at no other time.
C23_PeriodicNoise ==
    [][(call'.op = "psg_exec" /\ BitAnd(emu.psg.noise, 4) = 0) =>
          LET p == emu.psg
              q == emu'.psg
              reload == p.counter[3] <= 1
          IN  /\ (NoiseFlip(q) # NoiseFlip(p)) <=> reload
              /\ q.lfsr = IF reload /\ ~NoiseFlip(p) THEN Rotate15(p.lfsr)
                          ELSE p.lfsr
              /\ run'.shifts = run.shifts
                               + (IF reload /\ ~NoiseFlip(p) THEN 1 ELSE 0)
              /\ (q.lfsr = Shl(1, LFSRSHIFT)) <=> (run'.shifts % 15 = 0)
              /\ q.output[3] = BitAnd(p.lfsr, 1) * PsgVtable[p.attenuator[3] + 1]]_vars

C23_Witness ==
    /\ call.op = "psg_exec"
    /\ emu.psg.noise = 0
    /\ run.shifts = 15
    /\ emu.psg.lfsr = Shl(1, LFSRSHIFT)

\* C24 (as stated): the register holds the next 17 values of its bit 0, so a
\* bit-0 sequence of period 17 brings the register back to its seed after
\* every 17 shifts.
C24_NoisePeriod17 ==
    (call.op = "sgmpsg_exec" /\ run.shifts % 17 = 0) => emu.sgmpsg.nshift = 1

\* C24: counted from the seed, the 17-bit register is never zero and is back
\* at the seed after 131071 shifts and at no earlier shift, so the sequence
\* of its bit 0 repeats with period 131071.
C24_NoisePeriodMaximal ==
    call.op = "sgmpsg_exec" =>
        /\ emu.sgmpsg.nshift \in 1 .. 131071
        /\ run.shifts = lines
        /\ (emu.sgmpsg.nshift = 1) <=> (run.shifts % 131071 = 0)

C24_Witness ==
    /\ call.op = "sgmpsg_exec"
    /\ run.shifts = 131071
    /\ emu.sgmpsg.nshift = 1

\* C25: with shape 10 and a non-zero envelope period, after n envelope steps
\* the volume is 15 for n = 0, goes down to 0 over steps 1..16, up to 15 over
\* steps 17..32 and so on with period 32; the segment is 1 during the
\* second 16 steps of every 32.
C25_EnvelopeShape10 ==
    (emu.sgmpsg.reg[13] = 10 /\ emu.sgmpsg.eperiod # 0) =>
        LET r == run.steps % 32
        IN  /\ emu.sgmpsg.evol = IF r = 0 THEN 15
                                 ELSE IF r <= 16 THEN 16 - r
                                 ELSE r - 17
            /\ emu.sgmpsg.eseg = IF r >= 16 THEN 1 ELSE 0
            /\ emu.sgmpsg.estep = r % 16
            /\ run.steps = lines \div (2 * emu.sgmpsg.eperiod)

C25_Witness ==
    /\ call.op = "sgmpsg_exec"
    /\ emu.sgmpsg.reg[13] = 10
    /\ emu.sgmpsg.eperiod = 2
    /\ run.steps = 32
    /\ emu.sgmpsg.evol = 15
    /\ emu.sgmpsg.eseg = 0

(***************************************************************************)
(* Properties of the frame scheduler (SpecExec, SpecExecFair).             *)
(***************************************************************************)
LineCycles(m) == m.numscanlines * Z80_CYC_LINE

\* the cycles run so far, from the scanlines finished and the one under way
Accounted(m, r) ==
    /\ r.pc = "idle" =>
          /\ r.cycles = r.mixes * LineCycles(m) + m.extracycs
          /\ r.vdps = r.mixes * m.numscanlines
    /\ r.pc \in {"z80", "vdp"} =>
          /\ r.i < m.numscanlines
          /\ r.cycles = (r.mixes * m.numscanlines + r.i) * Z80_CYC_LINE
                        + (Z80_CYC_LINE - r.reqcycs) + r.linecycs
          /\ r.vdps = r.mixes * m.numscanlines + r.i
          /\ (r.pc = "z80") <=> (r.linecycs < r.reqcycs)
    /\ r.pc = "mix" =>
          /\ r.i = m.numscanlines
          /\ r.cycles = (r.mixes + 1) * LineCycles(m) + r.extcycs
          /\ r.vdps = (r.mixes + 1) * m.numscanlines

\* C26: a frame restores the residue the frame before stored and stores its
\* own; every scanline runs instructions while linecycs < 228 - extcycs,
\* calls jcv_vdp_exec once and carries linecycs - reqcycs over; so the
\* cycles run are 228 for every scanline finished plus the residue carried,
\* and numscanlines * 228 for every frame finished plus the residue stored.
C26_CycleAccounting ==
    [][/\ Accounted(emu', run')
       /\ call'.op = "exec" =>
             /\ run.pc = "idle"
             /\ run'.extcycs = emu.extracycs
             /\ emu'.extracycs = 0
       /\ call'.op = "z80_exec" =>
             /\ run.linecycs < run.reqcycs
             /\ run'.cycles = run.cycles + ret'
             /\ run'.linecycs = run.linecycs + ret'
       /\ call'.op = "vdp_exec" =>
             /\ run.linecycs >= run.reqcycs
             /\ run'.extcycs = run.linecycs - run.reqcycs
             /\ run'.vdps = run.vdps + 1
       /\ call'.op = "mixer_cb" =>
             /\ emu'.extracycs = run.extcycs
             /\ run'.cycles = run'.mixes * LineCycles(emu) + emu'.extracycs
      ]_vars

C26_Witness ==
    /\ call.op = "mixer_cb"
    /\ run.pc = "idle"
    /\ run.mixes = 2
    /\ emu.numscanlines = CV_VDP_SCANLINES
    /\ emu.extracycs > 0
    /\ run.cycles = 2 * CV_VDP_SCANLINES * Z80_CYC_LINE + emu.extracycs

\* C28: a frame that has begun ends, whatever the residue it began with and
\* whatever the delays of the PSG writes, and whenever jcv_exec is not
\* running, every frame begun has rendered numscanlines scanlines and made
\* one audio callback.
C28_FrameCompletes ==
    /\ [](run.pc = "idle" =>
             /\ run.mixes = run.frames
             /\ run.vdps = run.frames * emu.numscanlines
             /\ lines = run.vdps)
    /\ (run.pc # "idle") ~> (run.pc = "idle")

C28_Witness ==
    /\ call.op = "mixer_cb"
    /\ run.pc = "idle"
    /\ run.frames = 2
    /\ run.mixes = 2
    /\ run.prog = ExecPrograms.one
    /\ lines = 2 * CV_VDP_SCANLINES
    /\ emu.extracycs > 0

\* C30: after C cycles both chips have been clocked C div 16 times, the
\* divider holds C mod 16, and the two sample counts of the frame agree.
C30_PsgClock ==
    /\ emu.psgcycs = run.cycles % DIV_PSG
    /\ run.execs = run.cycles \div DIV_PSG
    /\ run.sgmexecs = run.execs
    /\ emu.psgsamps = emu.sgmpsgsamps
    /\ run.pc # "idle" => (emu.psgbufpos = emu.psgsamps
                           /\ emu.sgmbufpos = emu.sgmpsgsamps)

C30_Witness ==
    /\ call.op = "mixer_cb"
    /\ run.mixes = 2
    /\ emu.numscanlines = CV_VDP_SCANLINES_PAL
    /\ emu.psgcycs # 0
    /\ run.cycles % (DIV_PSG * CV_VDP_SCANLINES_PAL) # 0
    /\ run.execs = run.cycles \div DIV_PSG
    /\ emu.psgsamps = emu.sgmpsgsamps
    /\ emu.psgsamps > 0

(***************************************************************************)
(* Properties of the envelope shapes (SpecEnv).                            *)
(***************************************************************************)
EnvAlternating == {8, 10, 12, 14}

\* C31: with a shape that does not continue or alternate, from the 16th
\* envelope step on the segment is 1 and the volume stays at 15 (shapes 11
\* and 13) or at 0 (the others); with shapes 8, 10, 12 and 14 the segment
\* is the parity of the number of 16-step runs finished.
C31_EnvelopeHold ==
    LET g == emu.sgmpsg
    IN  /\ (g.reg[13] \notin EnvAlternating /\ run.steps >= 16) =>
              /\ g.eseg = 1
              /\ g.evol = IF g.reg[13] \in {11, 13} THEN 15 ELSE 0
        /\ g.reg[13] \in EnvAlternating => g.eseg = (run.steps \div 16) % 2
        /\ g.estep = run.steps % 16

C31_Witness ==
    /\ call.op = "sgmpsg_exec"
    /\ emu.sgmpsg.reg[13] = 11
    /\ run.steps = 40
    /\ emu.sgmpsg.eseg = 1
    /\ emu.sgmpsg.evol = 15

(***************************************************************************)
(* Properties of the fifth-sprite number (SpecSpr).                        *)
(***************************************************************************)
\* the entry that ends the walk of a line: the fifth sprite on it, or the
\* first entry with Y = 208, or the last entry
SprFifth(v, line) ==
    CHOOSE i \in SprOnLine(v, line) :
        Cardinality({j \in SprOnLine(v, line) : j < i}) = 4
SprTerminator(v) == Cardinality(SprListed(v))
SprLast(v, line) ==
    IF Cardinality(SprOnLine(v, line)) >= 5 THEN SprFifth(v, line)
    ELSE IF SprTerminator(v) < 32 THEN SprTerminator(v)
    ELSE 31

\* C33 as stated: a walk that ends at an entry with Y = 208 leaves in the FS
\* field the index of the entry before it, and leaves the field alone when
\* the first entry is the terminator.
C33_TerminatorKeepsFs ==
    [][(call'.op = "vdp_exec" /\ SprActive(emu.vdp)) =>
          LET v == emu.vdp
              last == SprLast(v, v.line)
          IN  emu'.vdp.stat % 32 =
                 IF SatByte(v, last, 0) = 208
                 THEN (IF last = 0 THEN v.stat % 32 ELSE last - 1)
                 ELSE last
      ]_vars

\* C33: the FS field is set to the index of every entry examined, the entry
\* with Y = 208 included: after a rendered line it holds the index of the
\* entry that ended the walk.
C33_TerminatorSetsFs ==
    [][call'.op = "vdp_exec" =>
          LET v == emu.vdp
          IN  emu'.vdp.stat % 32 = IF SprActive(v) THEN SprLast(v, v.line)
                                   ELSE v.stat % 32
      ]_vars

C33_Witness ==
    /\ call.op = "vdp_exec" /\ call.a < CV_VDP_HEIGHT
    /\ emu.vdp.ctrl[1] = 64
    /\ SprTerminator(emu.vdp) = 4
    /\ Cardinality(SprOnLine(emu.vdp, call.a)) = 4
    /\ emu.vdp.stat % 32 = 4
    /\ ~FifthSet(emu.vdp)

(***************************************************************************)
(* Properties of the envelope period (SpecPeriod).                         *)
(***************************************************************************)
\* calls of jcv_sgmpsg_exec per envelope step for the period P
EnvCadence(P) == IF P = 0 THEN 1 ELSE 2 * P

\* C32: for every 16-bit envelope period P the envelope advances one step
\* every max(1, 2 * P) calls of jcv_sgmpsg_exec: after n calls the step
\* within the segment is (n \div max(1, 2 * P)) % 16.
C32_EnvelopeCadence ==
    LET g == emu.sgmpsg
    IN  /\ g.eperiod = g.reg[11] + 256 * g.reg[12]
        /\ g.estep = (lines \div EnvCadence(g.eperiod)) % 16

(***************************************************************************)
(* Properties of the audio samples (SpecMix).                              *)
(***************************************************************************)
Int16 == -32768 .. 32767

\* C34: no audio sample overflows a signed 16-bit integer: the sum of the
\* four SN76489 channel outputs, and the sum of the two cells psgbuf[i] and
\* sgmpsgbuf[i] that the mixer adds in place, both lie in -32768..32767.
C34_SamplesFit ==
    LET o == emu.psg.output
    IN  /\ o[0] + o[1] + o[2] + o[3] \in Int16
        /\ (run.pc # "idle" /\ emu.psgbufpos > 0
                /\ emu.sgmbufpos = emu.psgbufpos)
              => emu.psgbuf + emu.sgmpsgbuf \in Int16

(***************************************************************************)
(* Properties of a failed cartridge load (SpecLoad).                       *)
(***************************************************************************)
\* C35: a jcv_rom_load that fails leaves the cartridge mapping untouched:
\* romdata, romsize, rompages, the megacart flag and rompage[0..3] keep the
\* values of the ROM loaded before.
C35_FailedLoadKeepsMapping ==
    [][(call'.op = "rom_load" /\ ret' = 0) =>
          /\ emu'.romdata = emu.romdata
          /\ emu'.romsize = emu.romsize
          /\ emu'.rompages = emu.rompages
          /\ emu'.megacart = emu.megacart
          /\ emu'.rompage = emu.rompage
      ]_vars

(***************************************************************************)
(* Properties of the cycle residue (SpecExec).                             *)
(***************************************************************************)
\* C36: at the end of every scanline the residue extcycs is smaller than
\* the cycles of the last instruction run on the line; as long as no
\* instruction reports 228 cycles or more, the next line's
\* reqcycs = 228 - extcycs is in 1..228.
C36_ResidueBelowInstruction ==
    [][/\ call'.op = "vdp_exec" =>
             /\ run'.extcycs = run.linecycs - run.reqcycs
             /\ run'.extcycs >= 0
             /\ run'.extcycs < ret
       /\ (call'.op = "vdp_exec" /\ run'.pc # "mix" /\ ret < Z80_CYC_LINE) =>
             /\ run'.reqcycs = Z80_CYC_LINE - run'.extcycs
             /\ run'.reqcycs \in 1 .. Z80_CYC_LINE
             /\ run'.pc = "z80"
       /\ call'.op = "mixer_cb" => emu'.extracycs = run.extcycs
       /\ call'.op = "exec" =>
             /\ run'.extcycs = emu.extracycs
             /\ run'.reqcycs = Z80_CYC_LINE - run'.extcycs
             /\ run'.reqcycs \in 1 .. Z80_CYC_LINE
      ]_vars

C36_Witness ==
    /\ call.op = "vdp_exec"
    /\ run.prog = <<<<23, -1>>>>
    /\ run.extcycs = 22
    /\ run.pc = "z80"
    /\ run.reqcycs = 206

(***************************************************************************)
(* Properties of the raw sample buffers (SpecExec).                        *)
(***************************************************************************)
\* C37: in every frame, NTSC or PAL, the write position of each chip's
\* buffer stays below the 4600 samples of the buffer (no instruction of the
\* programs reports 228 cycles or more), and the positions go back to 0
\* once per frame, in the mixer and nowhere else.
C37_BuffersFit ==
    [][/\ emu'.psgbufpos < SIZE_PSGBUF
       /\ emu'.sgmbufpos < SIZE_PSGBUF
       /\ IF call'.op = "mixer_cb"
          THEN /\ emu'.psgbufpos = 0
               /\ emu'.sgmbufpos = 0
               /\ run'.mixes = run'.frames
          ELSE /\ emu'.psgbufpos >= emu.psgbufpos
               /\ emu'.sgmbufpos >= emu.sgmbufpos
               /\ emu'.psgbufpos = emu'.psgsamps
               /\ emu'.sgmbufpos = emu'.sgmpsgsamps
      ]_vars

C37_Witness ==
    /\ emu.numscanlines = CV_VDP_SCANLINES_PAL
    /\ run.pc = "mix"
    /\ run.frames = 2
    /\ emu.psgbufpos >= 4460
    /\ emu.sgmbufpos >= 4460

(***************************************************************************)
(* Properties of the AY's indexes (SpecAy).                                *)
(***************************************************************************)
\* C38: in every state reached from jcv_sgmpsg_init by writes of the
\* register index, writes of any register at any moment of the envelope and
\* cycles of the chip, evol and estep are in 0..15 and so is the latched
\* register index: every index into the volume table and into the register
\* array is in range.
C38_AyIndexesInRange ==
    LET g == emu.sgmpsg
    IN  /\ g.evol \in 0 .. 15
        /\ g.estep \in 0 .. 15
        /\ g.rlatch \in 0 .. 15
        /\ g.evol + 1 \in DOMAIN SgmVtable
        /\ g.rlatch \in DOMAIN g.reg
        /\ \A i \in 0 .. 2 : g.amplitude[i] + 1 \in DOMAIN SgmVtable

(***************************************************************************)
(* Properties of the sprite line buffers (SpecSpr).                        *)
(***************************************************************************)
\* the indexes x + p at which a line's walk reads or writes linebuf and cbuf
SprUsed(v, oob) ==
    SprWalk(v, [i |-> 0, numspr |-> 0, stat |-> v.stat,
                cbuf |-> {}, used |-> {}, reads |-> {}, done |-> FALSE], oob).used

\* C39: every index used to read or write the per-line sprite buffers
\* linebuf and cbuf lies in 0..255, whatever the sprites' X positions,
\* early-clock bits, size, magnification and patterns.
C39_SpriteIndexesInRange ==
    [][(call'.op = "vdp_exec" /\ SprActive(emu.vdp)) =>
          \A oob \in BOOLEAN :
              SprUsed(emu.vdp, oob) \subseteq 0 .. (CV_VDP_WIDTH - 1)
      ]_vars

(***************************************************************************)
(* Properties of the VRAM indexes (SpecVdp).                               *)
(***************************************************************************)
\* the VRAM indexes the two renderers read on the line to come
VdpReads(v, oob) ==
    IF jcv_vdp_rendering(v) # 0 /\ v.line < CV_VDP_HEIGHT
    THEN BgReads(v) \cup (IF BitAnd(v.ctrl[1], 16) = 0
                          THEN SprWalk(v, [i |-> 0, numspr |-> 0, stat |-> v.stat,
                                           cbuf |-> {}, used |-> {}, reads |-> {},
                                           done |-> FALSE], oob).reads
                          ELSE {})
    ELSE {}

\* C40: every VRAM access uses an index in 0..0x3FFF: the address register
\* is at most 0x3FFF, every control register has its don't-care bits clear,
\* the five table bases are R2<<10, R3<<6, R4<<11, R5<<7 and R6<<11, and
\* every index the background and the sprite renderer read at is below
\* 0x4000.
C40_VramIndexesInRange ==
    LET v == emu.vdp
    IN  /\ v.addr \in 0 .. 16383
        /\ \A r \in 0 .. 7 : v.ctrl[r] = BitAnd(v.ctrl[r], VdpDcmask[r])
        /\ v.tbl_pname = Shl(v.ctrl[2], 10)
        /\ v.tbl_col = Shl(v.ctrl[3], 6)
        /\ v.tbl_pgen = Shl(v.ctrl[4], 11)
        /\ v.tbl_sattr = Shl(v.ctrl[5], 7)
        /\ v.tbl_spgen = Shl(v.ctrl[6], 11)
        /\ VdpReads(v, FALSE) \subseteq 0 .. (SIZE_VRAM - 1)

C40_Witness ==
    /\ call.op = "vdp_exec"
    /\ run.ip > Len(run.prog)
    /\ emu.vdp.ctrl[1] = 195
    /\ emu.vdp.tbl_spgen = 14336
    /\ emu.vdp.tbl_sattr = 16256
    /\ emu.vdp.tbl_col = 16320
    /\ 16383 \in VdpReads(emu.vdp, FALSE)

====
